---- MODULE Spec2Model ----
(***************************************************************************)
(* Chain-of-thought reflection pipeline (cot_reflection_file.py and its    *)
(* callers), the snapshot store (db_utils.py), the comparative evaluator   *)
(* (cot_reflection_app.py, cot_reflection_app_v1.py), tag extraction on    *)
(* its own, and the three-query pipeline of reflection_gemini.py.          *)
(*                                                                         *)
(* Text is a sequence of tokens.  A token is an ordinary character "a",    *)
(* a whitespace character " ", one of the two tags "<thinking>" and        *)
(* "</thinking>", or a fixed literal of a prompt template or message.      *)
(* Python's None is the one-token text <<"None">>.  Temperatures and       *)
(* top_p values are integers in hundredths (0.7 is 70).                    *)
(***************************************************************************)
EXTENDS Integers, Sequences, FiniteSets, TLC

VARIABLES
    req,        \* the arguments of the running process_question call
    pc,         \* where that call stands
    calls,      \* every get_model_response invocation so far, in issue order
    loc,        \* local variables of process_question / cot_reflection
    result,     \* what process_question returned
    table,      \* the rows of table snapshots, as committed
    seq,        \* sqlite_sequence's value for table snapshots
    db_lock,    \* the connection that holds the database's write lock
    now,        \* the clock datetime.now() reads
    cl,         \* each client's position in the SnapshotDB method it runs
    last,       \* what the SnapshotDB method that returned last returned,
                \* until the next save or delete reaches the database
    assigned,   \* history: the ids INSERT has assigned, in commit order
    submitted,  \* history: for each stored id, the dictionary it was saved from
    evaluations,\* the rows of table evaluations, in insertion order
    ev,         \* the running evaluation: its arguments, position and result
    gem,        \* the running reflection_gemini.main call: position, queries, slots
    ext         \* a text handed to tag extraction, and what extraction made of it

engineVars == <<req, pc, calls, loc, result>>

storeVars == <<table, seq, db_lock, now, cl, last, assigned, submitted>>

evalVars == <<evaluations, ev>>

sideVars == <<gem, ext>>

vars == <<req, pc, calls, loc, result,
          table, seq, db_lock, now, cl, last, assigned, submitted,
          evaluations, ev, gem, ext>>

---------------------------------------------------------------------------
(* Text helpers *)

None == <<"None">>

OPEN == "<thinking>"

CLOSE == "</thinking>"

\* Python truthiness of a str-or-None value
Truthy(x) == x # None /\ x # <<>>

\* a whitespace character
IsSpace(tok) == tok \in {" ", "\n"}

RECURSIVE LStrip(_)
LStrip(s) == IF s # <<>> /\ IsSpace(Head(s)) THEN LStrip(Tail(s)) ELSE s

RECURSIVE RStrip(_)
RStrip(s) ==
    IF s # <<>> /\ IsSpace(s[Len(s)]) THEN RStrip(SubSeq(s, 1, Len(s) - 1)) ELSE s

\* str.strip()
Strip(s) == RStrip(LStrip(s))

\* index of the first occurrence of tok in s at or after from, 0 when none
FirstIndex(s, tok, from) ==
    LET hits == {i \in from..Len(s) : s[i] = tok}
    IN  IF hits = {} THEN 0 ELSE CHOOSE i \in hits : \A j \in hits : i <= j

\* sub occurs in s as a contiguous run
Contains(s, sub) ==
    \E i \in 0..(Len(s) - Len(sub)) : SubSeq(s, i + 1, i + Len(sub)) = sub

---------------------------------------------------------------------------
(* Model registry and credentials *)

AVAILABLE_MODELS ==
    [m \in {"Gemini 2.0 Flash", "Claude 3.5 Sonnet", "Llama 3.1 405B",
            "Llama 3.3 70B", "OpenAI gpt-4o", "OpenAI gpt-o1",
            "AI21 Jamba 1.5 Large"} |->
        [provider |-> IF m \in {"Gemini 2.0 Flash", "Claude 3.5 Sonnet"}
                      THEN "vertex_ai" ELSE "azure_ai",
         model_id |->
            CASE m = "Gemini 2.0 Flash" -> "vertex_ai/gemini-2.0-flash-001"
              [] m = "Claude 3.5 Sonnet" -> "vertex_ai/claude-3-5-sonnet-v2@20241022"
              [] m = "Llama 3.1 405B" -> "azure_ai/llama-3-1-405b-instruct"
              [] m = "Llama 3.3 70B" -> "azure_ai/llama-3-3-70b-instruct"
              [] m = "OpenAI gpt-4o" -> "azure_ai/gpt-4o"
              [] m = "OpenAI gpt-o1" -> "azure_ai/openai-o1-genaiteam-swec-live"
              [] m = "AI21 Jamba 1.5 Large" -> "azure_ai/AI21-Jamba-1-5-Large",
         temp_range |-> <<0, 100>>,
         top_p_range |-> <<0, 100>>]]

LLM_API_KEYS ==
    {"azure_ai/llama-3-1-70b-instruct", "azure_ai/llama-3-1-405b-instruct",
     "azure_ai/llama-3-3-70b-instruct", "azure_ai/gpt-4o"}

---------------------------------------------------------------------------
(* get_model_response: the ModelProvider *)

\* "no exception": str(e) of a raised exception is never this value here
NoExc == <<>>

\* what litellm's completion() can do with one request: return a message
\* content, or raise
BackendTexts ==
    { <<>>,
      <<"a">>,
      <<" ", "a", " ">>,
      <<OPEN, "a", CLOSE>>,
      <<"a", CLOSE, "b">> }

BackendErrors == { <<"timeout">> }

BackendOutcomes ==
    {[exc |-> NoExc, content |-> t] : t \in BackendTexts}
        \cup {[exc |-> e, content |-> <<>>] : e \in BackendErrors}

NotCalled == [exc |-> NoExc, content |-> <<"(not called)">>]

NoDispatch ==
    [dispatched |-> FALSE, model |-> "", messages |-> <<>>,
     temperature |-> 0, top_p |-> 0]

\* str(KeyError(k))
KeyErrorText(k) == <<"'", k, "'">>

\* f"Error with {model_name}: {str(e)}"
ErrorText(model_name, msg) == <<"Error with ", model_name, ": ">> \o msg

IsErrorText(model_name, t) ==
    Len(t) > 3 /\ SubSeq(t, 1, 3) = <<"Error with ", model_name, ": ">>

ValidateModelSkipped(model_name) == NoExc

\* lines 85-86: the exception the registry check raises, NoExc when it passes
ValidateModel(model_name) ==
    IF model_name \notin DOMAIN AVAILABLE_MODELS
    THEN <<"Unknown model: ", model_name>>
    ELSE NoExc

\* the completion(...) call of one provider branch
Completion(model_name, prompt, temperature, top_p, backend) ==
    [exc |-> backend.exc,
     content |-> backend.content,
     sent |-> [dispatched |-> TRUE,
               model |-> AVAILABLE_MODELS[model_name].model_id,
               messages |-> prompt,
               temperature |-> temperature,
               top_p |-> top_p]]

Failed(msg) == [exc |-> msg, content |-> <<>>, sent |-> NoDispatch]

\* the body of the try block, lines 85-110
TryBody(model_name, prompt, temperature, top_p, backend) ==
    IF ValidateModel(model_name) # NoExc
    THEN Failed(ValidateModel(model_name))
    ELSE IF model_name \notin DOMAIN AVAILABLE_MODELS
    THEN Failed(KeyErrorText(model_name))
    ELSE IF AVAILABLE_MODELS[model_name].provider = "vertex_ai"
    THEN Completion(model_name, prompt, temperature, top_p, backend)
    ELSE IF AVAILABLE_MODELS[model_name].provider = "azure_ai"
    THEN IF AVAILABLE_MODELS[model_name].model_id \notin LLM_API_KEYS
         THEN Failed(KeyErrorText(AVAILABLE_MODELS[model_name].model_id))
         ELSE Completion(model_name, prompt, temperature, top_p, backend)
    ELSE Failed(<<"Unknown provider: ", AVAILABLE_MODELS[model_name].provider>>)

ExceptHandlerReraise(model_name, msg) == [raised |-> TRUE, ret |-> msg]

\* lines 112-113: except Exception as e: return f"Error with ..."
ExceptHandler(model_name, msg) ==
    [raised |-> FALSE, ret |-> ErrorText(model_name, msg)]

\* get_model_response: what it returns (ret), whether an exception escapes it
\* (raised), what it passed to the backend (sent) and what the backend did
GetModelResponse(model_name, prompt, temperature, top_p, backend) ==
    LET body == TryBody(model_name, prompt, temperature, top_p, backend)
        out  == IF body.exc # NoExc
                THEN ExceptHandler(model_name, body.exc)
                ELSE [raised |-> FALSE, ret |-> body.content]
    IN  [raised |-> out.raised,
         ret |-> out.ret,
         sent |-> body.sent,
         backend |-> IF body.sent.dispatched THEN backend ELSE NotCalled]

---------------------------------------------------------------------------
(* Prompts *)

\* f"Document Content:\n{document_content}\n\n" if document_content else ""
DocContent(document_content) ==
    IF Truthy(document_content)
    THEN <<"Document Content:\n">> \o document_content \o <<"\n\n">>
    ELSE <<>>

ThinkingPrompt(system_prompt, document_content, cot_prompt, question) ==
    system_prompt \o <<"\n\n">> \o DocContent(document_content) \o cot_prompt
        \o <<"\n\nQuestion: ">> \o question \o <<"\n\nThinking:">>

ReflectionPrompt(system_prompt, thinking_response) ==
    system_prompt \o <<"\n\nInitial thinking: ">> \o thinking_response
        \o <<"\n\nReflect on this thinking process. What are the key assumptions? Are there any logical gaps or potential biases? How can the reasoning be improved?">>

FinalPrompt(system_prompt, question, thinking_response, reflection) ==
    system_prompt \o <<"\n\nQuestion: ">> \o question
        \o <<"\n\nInitial thinking: ">> \o thinking_response
        \o <<"\n\nReflection: ">> \o reflection
        \o <<"\n\nBased on this reflection, provide an improved final answer:">>

InitialResponsePrompt(system_prompt, document_content, user_prompt) ==
    system_prompt \o <<"\n\n">> \o DocContent(document_content)
        \o <<"Question: ">> \o user_prompt
        \o <<"\n\nProvide a concise answer to this question without any explanation or reasoning.">>

DirectResponsePrompt(system_prompt, document_content, user_prompt) ==
    system_prompt \o <<"\n\n">> \o DocContent(document_content)
        \o <<"Question: ">> \o user_prompt
        \o <<"\n\nAnalyze the question and provide a comprehensive answer.">>

---------------------------------------------------------------------------
(* Tag extraction *)

\* f"<thinking>{thinking_response}</thinking>"
WrapThinking(thinking_response) == <<OPEN>> \o thinking_response \o <<CLOSE>>

\* a closing tag made optional, as in r'<thinking>(.*?)(?:</thinking>|$)'
ExtractThinkingToEnd(thinking) ==
    LET i == FirstIndex(thinking, OPEN, 1)
        j == IF i = 0 THEN 0 ELSE FirstIndex(thinking, CLOSE, i + 1)
    IN  IF i = 0 THEN thinking
        ELSE IF j = 0 THEN Strip(SubSeq(thinking, i + 1, Len(thinking)))
        ELSE Strip(SubSeq(thinking, i + 1, j - 1))

\* re.search(r'<thinking>(.*?)</thinking>', thinking, re.DOTALL);
\* group(1).strip() if it matches, else thinking
ExtractThinking(thinking) ==
    LET i == FirstIndex(thinking, OPEN, 1)
        j == IF i = 0 THEN 0 ELSE FirstIndex(thinking, CLOSE, i + 1)
    IN  IF i = 0 \/ j = 0 THEN thinking ELSE Strip(SubSeq(thinking, i + 1, j - 1))

---------------------------------------------------------------------------
(* process_question and cot_reflection *)

\* defaults of get_model_response and cot_reflection
DefaultTemperature == 70

DefaultTopP == 95

SystemPrompts == { <<"S">> }

CotPrompts == { <<"C">> }

Questions == { <<"Q">> }

Documents == { None, <<"D">> }

RequestModels == {"Gemini 2.0 Flash", "OpenAI gpt-4o", "OpenAI gpt-o1", "stub-model"}

Temperatures == {70, 150}

TopPs == {95, 120}

\* "app" is cot_reflection_app.py, "app_v1" is path/to/cot_reflection_app_v1.py
Entries == {"app", "app_v1"}

NoReq ==
    [entry |-> "", model |-> "", use_cot |-> FALSE, document_content |-> None,
     temperature |-> 0, top_p |-> 0, system_prompt |-> <<>>,
     cot_prompt |-> <<>>, user_prompt |-> <<>>]

NoLoc ==
    [initial_response |-> <<>>, thinking_response |-> <<>>, thinking |-> <<>>,
     reflection |-> <<>>, output |-> <<>>, actual_thinking |-> <<>>]

NoResult ==
    [returned |-> FALSE, user_prompt |-> <<>>, initial_response |-> <<>>,
     actual_thinking |-> <<>>, reflection |-> <<>>, output |-> <<>>,
     system_prompt |-> <<>>, cot_prompt |-> <<>>]

PendingCall(stage, model_name, prompt, temperature, top_p) ==
    [stage |-> stage, model_name |-> model_name, prompt |-> prompt,
     temperature |-> temperature, top_p |-> top_p, pending |-> TRUE,
     raised |-> FALSE, ret |-> <<>>, sent |-> NoDispatch, backend |-> NotCalled]

Returned(c, r) ==
    [c EXCEPT !.pending = FALSE, !.raised = r.raised, !.ret = r.ret,
              !.sent = r.sent, !.backend = r.backend]

StageAfterRetry(stage, ret) ==
    IF IsErrorText(req.model, ret) THEN stage
    ELSE CASE stage = "THINKING" -> "REFLECTION"
           [] stage = "REFLECTION" -> "OUTPUT"
           [] stage = "OUTPUT" -> "RETURN"

StageAfterAbort(stage, ret) ==
    IF IsErrorText(req.model, ret) THEN "RETURN"
    ELSE CASE stage = "THINKING" -> "REFLECTION"
           [] stage = "REFLECTION" -> "OUTPUT"
           [] stage = "OUTPUT" -> "RETURN"

\* cot_reflection's control flow, lines 154-178: what follows the return of a
\* stage's call; the text returned plays no part
StageAfter(stage, ret) ==
    CASE stage = "THINKING" -> "REFLECTION"
      [] stage = "REFLECTION" -> "OUTPUT"
      [] stage = "OUTPUT" -> "RETURN"

\* the baseline answer carried into every stage's prompt
StagePromptWithBaseline(stage, r, l) ==
    l.initial_response \o
    (CASE stage = "THINKING" ->
            ThinkingPrompt(r.system_prompt, r.document_content, r.cot_prompt,
                           r.user_prompt)
       [] stage = "REFLECTION" ->
            ReflectionPrompt(r.system_prompt, l.thinking_response)
       [] stage = "OUTPUT" ->
            FinalPrompt(r.system_prompt, r.user_prompt, l.thinking_response,
                        l.reflection))

\* the prompt cot_reflection builds for a stage
StagePrompt(stage, r, l) ==
    CASE stage = "THINKING" ->
            ThinkingPrompt(r.system_prompt, r.document_content, r.cot_prompt,
                           r.user_prompt)
      [] stage = "REFLECTION" ->
            ReflectionPrompt(r.system_prompt, l.thinking_response)
      [] stage = "OUTPUT" ->
            FinalPrompt(r.system_prompt, r.user_prompt, l.thinking_response,
                        l.reflection)

\* the assignments cot_reflection makes from a stage's response
StoreStage(stage, ret, l) ==
    CASE stage = "THINKING" ->
            [l EXCEPT !.thinking_response = ret, !.thinking = WrapThinking(ret)]
      [] stage = "REFLECTION" -> [l EXCEPT !.reflection = ret]
      [] stage = "OUTPUT" -> [l EXCEPT !.output = ret]

\* cot_reflection's except clause, lines 180-181
EngineExcept(l, msg) ==
    [l EXCEPT !.thinking = <<"Error: ">> \o msg, !.reflection = <<>>,
              !.output = <<>>]

\* process_question's normal return
OkResult(r, l) ==
    [returned |-> TRUE, user_prompt |-> r.user_prompt,
     initial_response |-> l.initial_response,
     actual_thinking |-> l.actual_thinking, reflection |-> l.reflection,
     output |-> l.output, system_prompt |-> r.system_prompt,
     cot_prompt |-> r.cot_prompt]

\* process_question's except clause
ErrResult(r, msg) ==
    [returned |-> TRUE, user_prompt |-> r.user_prompt,
     initial_response |-> <<"An error occurred: ">> \o msg,
     actual_thinking |-> <<>>, reflection |-> <<>>, output |-> <<>>,
     system_prompt |-> IF r.entry = "app" THEN None ELSE r.system_prompt,
     cot_prompt |-> IF r.entry = "app" THEN None ELSE r.cot_prompt]

Requests ==
    {[entry |-> "app", model |-> m, use_cot |-> u, document_content |-> d,
      temperature |-> t, top_p |-> p, system_prompt |-> sp, cot_prompt |-> cp,
      user_prompt |-> q] :
        m \in RequestModels, u \in BOOLEAN, d \in Documents, t \in Temperatures,
        p \in TopPs, sp \in SystemPrompts, cp \in CotPrompts, q \in Questions}
    \cup
    {[entry |-> "app_v1", model |-> m, use_cot |-> TRUE, document_content |-> d,
      temperature |-> DefaultTemperature, top_p |-> DefaultTopP,
      system_prompt |-> sp, cot_prompt |-> cp, user_prompt |-> q] :
        m \in RequestModels, d \in Documents, sp \in SystemPrompts,
        cp \in CotPrompts, q \in Questions}

\* process_question is called; it runs up to its first provider call
Submit(r) ==
    /\ UNCHANGED <<storeVars, evalVars, sideVars>>
    /\ pc = "idle"
    /\ req' = r
    /\ loc' = NoLoc
    /\ IF r.entry = "app" /\ r.model \notin DOMAIN AVAILABLE_MODELS
       THEN /\ result' = ErrResult(r, <<"Invalid model selected: ", r.model>>)
            /\ pc' = "done"
            /\ calls' = <<>>
       ELSE IF r.entry = "app" /\ r.use_cot
       THEN /\ calls' = <<PendingCall("INITIAL", r.model,
                            InitialResponsePrompt(r.system_prompt,
                                r.document_content, r.user_prompt),
                            r.temperature, r.top_p)>>
            /\ pc' = "INITIAL"
            /\ result' = NoResult
       ELSE IF r.entry = "app"
       THEN /\ calls' = <<PendingCall("DIRECT", r.model,
                            DirectResponsePrompt(r.system_prompt,
                                r.document_content, r.user_prompt),
                            r.temperature, r.top_p)>>
            /\ pc' = "DIRECT"
            /\ result' = NoResult
       ELSE /\ calls' = <<PendingCall("THINKING", r.model,
                            StagePrompt("THINKING", r, NoLoc),
                            DefaultTemperature, DefaultTopP)>>
            /\ pc' = "THINKING"
            /\ result' = NoResult

\* cot_reflection has returned (thinking, reflection, output) to its caller
AfterEngine(done, l1) ==
    LET l2 == [l1 EXCEPT !.actual_thinking = ExtractThinking(l1.thinking)]
    IN  /\ loc' = l2
        /\ req' = req
        /\ IF req.entry = "app"
           THEN /\ result' = OkResult(req, l2)
                /\ pc' = "done"
                /\ calls' = done
           ELSE /\ calls' = Append(done,
                        PendingCall("INITIAL", req.model,
                            InitialResponsePrompt(req.system_prompt,
                                req.document_content, req.user_prompt),
                            DefaultTemperature, DefaultTopP))
                /\ pc' = "INITIAL"
                /\ result' = result

\* the pending call of a cot_reflection stage returns; cot_reflection runs on
\* to its next call, or returns and its caller runs on
StageReturns(backend) ==
    /\ UNCHANGED <<storeVars, evalVars, sideVars>>
    /\ pc \in {"THINKING", "REFLECTION", "OUTPUT"}
    /\ LET c    == calls[Len(calls)]
           r    == GetModelResponse(c.model_name, c.prompt, c.temperature,
                                    c.top_p, backend)
           done == [calls EXCEPT ![Len(calls)] = Returned(c, r)]
           l1   == IF r.raised THEN EngineExcept(loc, r.ret)
                   ELSE StoreStage(pc, r.ret, loc)
           next == IF r.raised THEN "RETURN" ELSE StageAfter(pc, r.ret)
       IN  IF next # "RETURN"
           THEN /\ calls' = Append(done,
                        PendingCall(next, c.model_name,
                                    StagePrompt(next, req, l1),
                                    c.temperature, c.top_p))
                /\ loc' = l1
                /\ pc' = next
                /\ UNCHANGED <<req, result>>
           ELSE AfterEngine(done, l1)

\* the pending initial-response call returns
InitialReturns(backend) ==
    /\ UNCHANGED <<storeVars, evalVars, sideVars>>
    /\ pc = "INITIAL"
    /\ LET c    == calls[Len(calls)]
           r    == GetModelResponse(c.model_name, c.prompt, c.temperature,
                                    c.top_p, backend)
           done == [calls EXCEPT ![Len(calls)] = Returned(c, r)]
           l1   == [loc EXCEPT !.initial_response = r.ret]
       IN  IF r.raised
           THEN /\ result' = ErrResult(req, r.ret)
                /\ pc' = "done"
                /\ calls' = done
                /\ UNCHANGED <<req, loc>>
           ELSE IF req.entry = "app"
           THEN /\ calls' = Append(done,
                        PendingCall("THINKING", req.model,
                                    StagePrompt("THINKING", req, l1),
                                    req.temperature, req.top_p))
                /\ loc' = l1
                /\ pc' = "THINKING"
                /\ UNCHANGED <<req, result>>
           ELSE /\ result' = OkResult(req, l1)
                /\ loc' = l1
                /\ pc' = "done"
                /\ calls' = done
                /\ UNCHANGED req

\* the pending direct-response call (chain of thought switched off) returns
DirectReturns(backend) ==
    /\ UNCHANGED <<storeVars, evalVars, sideVars>>
    /\ pc = "DIRECT"
    /\ LET c    == calls[Len(calls)]
           r    == GetModelResponse(c.model_name, c.prompt, c.temperature,
                                    c.top_p, backend)
       IN  /\ calls' = [calls EXCEPT ![Len(calls)] = Returned(c, r)]
           /\ result' = IF r.raised THEN ErrResult(req, r.ret)
                        ELSE [returned |-> TRUE, user_prompt |-> req.user_prompt,
                              initial_response |-> r.ret,
                              actual_thinking |-> <<>>, reflection |-> <<>>,
                              output |-> <<>>,
                              system_prompt |-> req.system_prompt,
                              cot_prompt |-> None]
           /\ pc' = "done"
           /\ UNCHANGED <<req, loc>>

\* the next request
Reset ==
    /\ UNCHANGED <<storeVars, evalVars, sideVars>>
    /\ pc = "done"
    /\ pc' = "idle"
    /\ req' = NoReq
    /\ calls' = <<>>
    /\ loc' = NoLoc
    /\ result' = NoResult

EngineInit ==
    /\ pc = "idle"
    /\ req = NoReq
    /\ calls = <<>>
    /\ loc = NoLoc
    /\ result = NoResult

EngineNext ==
    \/ \E r \in Requests : Submit(r)
    \/ \E b \in BackendOutcomes : StageReturns(b)
    \/ \E b \in BackendOutcomes : InitialReturns(b)
    \/ \E b \in BackendOutcomes : DirectReturns(b)
    \/ Reset

---------------------------------------------------------------------------
(* Properties of the reflection pipeline *)

EngineStages == <<"THINKING", "REFLECTION", "OUTPUT">>

IsEngineCall(c) == c.stage \in {"THINKING", "REFLECTION", "OUTPUT"}

\* the stages cot_reflection has invoked so far, in order
StagesInvoked == [i \in 1..Len(SelectSeq(calls, IsEngineCall)) |->
                    SelectSeq(calls, IsEngineCall)[i].stage]

EngineRan == \E i \in 1..Len(calls) : calls[i].stage = "THINKING"

EngineReturned == EngineRan /\ pc \notin {"THINKING", "REFLECTION", "OUTPUT"}

\* C1: a run of cot_reflection invokes THINKING, REFLECTION, OUTPUT in that
\* order, each once and never again, whatever the provider returns; a call is
\* issued only when every earlier call has returned; a finished run has
\* invoked all three.
C1_StagesSequentialOnce ==
    /\ \E k \in 0..3 : StagesInvoked = SubSeq(EngineStages, 1, k)
    /\ \A i \in 1..(Len(calls) - 1) : ~calls[i].pending
    /\ EngineReturned =>
          /\ StagesInvoked = EngineStages
          /\ \A i \in 1..Len(calls) : IsEngineCall(calls[i]) => ~calls[i].pending

\* a finished run whose THINKING call came back as error text
C1_Witness ==
    /\ pc = "done"
    /\ StagesInvoked = EngineStages
    /\ \E i \in 1..Len(calls) :
          /\ calls[i].stage = "THINKING"
          /\ IsErrorText(calls[i].model_name, calls[i].ret)

\* C2: a stage that comes back as error text does not end the run: the error
\* text is in the prompt of every later stage, and when all three stages come
\* back as the same error text, the thinking, reflection and output that
\* process_question returns are that text.
C2_ErrorTextCarriedForward ==
    /\ \A i \in 1..Len(calls) :
          (/\ IsEngineCall(calls[i])
           /\ ~calls[i].pending
           /\ IsErrorText(calls[i].model_name, calls[i].ret))
          => /\ ~calls[i].raised
             /\ calls[i].stage # "OUTPUT" =>
                   /\ i < Len(calls)
                   /\ calls[i].stage = "THINKING" => calls[i + 1].stage = "REFLECTION"
                   /\ calls[i].stage = "REFLECTION" => calls[i + 1].stage = "OUTPUT"
                   /\ Contains(calls[i + 1].prompt, calls[i].ret)
             /\ calls[i].stage = "THINKING" =>
                   \A j \in (i + 1)..Len(calls) :
                      calls[j].stage = "OUTPUT" =>
                         Contains(calls[j].prompt, calls[i].ret)
             /\ result.returned => StagesInvoked = EngineStages
    /\ \A i \in 1..Len(calls) :
          (/\ result.returned
           /\ calls[i].stage = "THINKING"
           /\ IsErrorText(calls[i].model_name, calls[i].ret)
           /\ \A j \in i..(i + 2) :
                 j <= Len(calls) /\ IsEngineCall(calls[j])
                    /\ calls[j].ret = calls[i].ret)
          => /\ result.actual_thinking = calls[i].ret
             /\ result.reflection = calls[i].ret
             /\ result.output = calls[i].ret

\* process_question has returned after every stage failed with a timeout
C2_Witness ==
    /\ result.returned
    /\ StagesInvoked = EngineStages
    /\ \A i \in 1..Len(calls) :
          IsEngineCall(calls[i]) =>
             calls[i].ret = ErrorText(req.model, <<"timeout">>)
    /\ result.output = ErrorText(req.model, <<"timeout">>)

\* C3: a reflection run that has returned has a non-empty output.
C3_OutputNeverEmpty ==
    (result.returned /\ EngineReturned) => result.output # <<>>

\* C4: get_model_response lets no exception escape; a call that failed (the
\* backend raised, or the call never reached the backend) returns the text
\* "Error with {model_name}: {message}".
C4_ErrorsReturnedAsText ==
    \A i \in 1..Len(calls) :
       ~calls[i].pending =>
          /\ ~calls[i].raised
          /\ calls[i].backend.exc # NoExc =>
                calls[i].ret = ErrorText(calls[i].model_name, calls[i].backend.exc)
          /\ ~calls[i].sent.dispatched =>
                IsErrorText(calls[i].model_name, calls[i].ret)

\* a call reached the backend, the backend raised, and the call has returned
C4_Witness ==
    \E i \in 1..Len(calls) :
       /\ ~calls[i].pending
       /\ calls[i].sent.dispatched
       /\ calls[i].backend.exc = <<"timeout">>

\* C5 as stated: a call that names an unregistered model fails with an
\* exception of its own (UnknownModelError), not with returned text.
C5_UnknownModelRaises ==
    \A i \in 1..Len(calls) :
       (~calls[i].pending /\ calls[i].model_name \notin DOMAIN AVAILABLE_MODELS)
       => calls[i].raised

\* C5 amended: a call that names an unregistered model reaches no backend and
\* returns the text "Error with {model_name}: Unknown model: {model_name}",
\* the way every failure of get_model_response is returned.
C5_UnknownModelReturnsText ==
    \A i \in 1..Len(calls) :
       (~calls[i].pending /\ calls[i].model_name \notin DOMAIN AVAILABLE_MODELS)
       => /\ ~calls[i].raised
          /\ ~calls[i].sent.dispatched
          /\ calls[i].ret = <<"Error with ", calls[i].model_name, ": ",
                              "Unknown model: ", calls[i].model_name>>

\* a call naming the unregistered model "stub-model" has returned
C5_Witness ==
    \E i \in 1..Len(calls) :
       ~calls[i].pending /\ calls[i].model_name = "stub-model"

\* C6: the temperature and top_p that reach the backend lie inside the
\* model's temp_range and top_p_range.
C6_SamplingParametersClamped ==
    \A i \in 1..Len(calls) :
       calls[i].sent.dispatched =>
          LET cfg == AVAILABLE_MODELS[calls[i].model_name]
          IN  /\ cfg.temp_range[1] <= calls[i].sent.temperature
              /\ calls[i].sent.temperature <= cfg.temp_range[2]
              /\ cfg.top_p_range[1] <= calls[i].sent.top_p
              /\ calls[i].sent.top_p <= cfg.top_p_range[2]

---------------------------------------------------------------------------
(* SnapshotDB: table snapshots *)

\* the most rows ever inserted in one behaviour
MaxSnapshots == 2

\* the last instant of the clock
MaxClock == 1

\* CREATE TABLE snapshots, in column order
Columns ==
    <<"id", "snapshot_name", "user_prompt", "system_prompt", "model_name",
      "cot_prompt", "initial_response", "thinking", "reflection",
      "final_response", "created_at", "tags">>

\* the column list of the INSERT statement
InsertColumns ==
    <<"snapshot_name", "user_prompt", "system_prompt", "model_name",
      "cot_prompt", "initial_response", "thinking", "reflection",
      "final_response", "created_at", "tags">>

\* the keys save_snapshot reads with snapshot_data[...], in evaluation order
RequiredKeys ==
    <<"snapshot_name", "user_prompt", "system_prompt", "model_name",
      "cot_prompt", "initial_response", "thinking", "reflection",
      "final_response">>

SnapshotKeys == {RequiredKeys[i] : i \in 1..Len(RequiredKeys)} \cup {"tags"}

IndexOf(seqn, x) == CHOOSE i \in 1..Len(seqn) : seqn[i] = x

\* a row's value in a named column
Col(row, name) == row[IndexOf(Columns, name)]

\* the order of the save button's inputs: args[0] .. args[9]
ArgOrder ==
    <<"snapshot_name", "user_prompt", "system_prompt", "model_name",
      "cot_prompt", "initial_response", "thinking", "reflection",
      "final_response", "tags">>

\* the dictionary the save button's lambda builds from its arguments
DictOfArgs(args) == [k \in SnapshotKeys |-> args[IndexOf(ArgOrder, k)]]

Without(d, key) == [k \in (DOMAIN d) \ {key} |-> d[k]]

\* the ten values the UI's save button passes, in the order of its inputs
ArgsA ==
    <<<<"n", " ">>, <<"q">>, <<"sysA">>, <<"Gemini 2.0 Flash">>, <<"cotA">>,
      <<"initA">>, <<"thA">>, <<"reflA">>, <<"finA">>, <<"contract">>>>

ArgsEmptyName ==
    <<<<>>, <<"q">>, <<"sysA">>, <<"OpenAI gpt-4o">>, <<"cotA">>,
      <<"initE">>, <<"thE">>, <<"reflE">>, <<"finE">>, <<>>>>

ArgsNoPrompt ==
    <<<<"n">>, None, <<"sysA">>, <<"OpenAI gpt-4o">>, None,
      <<"initP">>, <<>>, <<>>, <<>>, None>>

UiArgs == {ArgsA, ArgsEmptyName, ArgsNoPrompt}

\* dictionaries a program calling save_snapshot directly passes
SnapB ==
    Without(DictOfArgs(<<<<"m">>, <<"p">>, <<"sysB">>, <<"Claude 3.5 Sonnet">>,
                         <<"cotB">>, <<"initB">>, <<"thB">>, <<"reflB">>,
                         <<"finB">>, <<>>>>), "tags")

SnapMissingName == Without(SnapB, "snapshot_name")

SnapshotInputs == {SnapB, SnapMissingName}

\* the ids callers pass to get_snapshot_by_id and delete_snapshot
IdInputs == (-1)..(MaxSnapshots + 1)

Clients == {"c1", "c2"}

NoClient == "none"

NoDict == [k \in {"(none)"} |-> None]

NoRow == <<>>

Idle == [pc |-> "idle", data |-> NoDict, t |-> 0, row |-> NoRow, id |-> 0]

NoReturn ==
    [client |-> NoClient, op |-> "", id |-> 0, status |-> <<>>,
     found |-> FALSE, value |-> NoDict, rows |-> <<>>, term |-> <<>>]

Return(c, op, id, status) ==
    [client |-> c, op |-> op, id |-> id, status |-> status, found |-> FALSE,
     value |-> NoDict, rows |-> <<>>, term |-> <<>>]

Max(a, b) == IF a >= b THEN a ELSE b

\* the largest id among the rows of a table, 0 for an empty table
MaxRowId(t) ==
    IF t = {} THEN 0
    ELSE CHOOSE m \in {r[1] : r \in t} : \A r \in t : r[1] <= m

NextIdRowidOnly(t, s) == MaxRowId(t) + 1

\* id INTEGER PRIMARY KEY AUTOINCREMENT: one more than the largest id the
\* table has ever held, which sqlite_sequence records
NextId(t, s) == Max(s, MaxRowId(t)) + 1

\* snapshot_data.get('tags', '')
TagsOf(data) == IF "tags" \in DOMAIN data THEN data["tags"] ELSE <<>>

\* missing keys of a dictionary, as positions in RequiredKeys
MissingKeys(data) == {i \in 1..Len(RequiredKeys) : RequiredKeys[i] \notin DOMAIN data}

FirstMissingKey(data) ==
    RequiredKeys[CHOOSE i \in MissingKeys(data) : \A j \in MissingKeys(data) : i <= j]

\* the value tuple of the INSERT statement, lines 118-128
InsertValues(data, t) ==
    [i \in 1..Len(InsertColumns) |->
        IF InsertColumns[i] = "created_at" THEN t
        ELSE IF InsertColumns[i] = "tags" THEN TagsOf(data)
        ELSE data[InsertColumns[i]]]

\* the row INSERT adds
InsertedRow(id, data, t) ==
    [k \in 1..Len(Columns) |->
        IF Columns[k] = "id" THEN id
        ELSE InsertValues(data, t)[IndexOf(InsertColumns, Columns[k])]]

InsertOrReplace(t, row) ==
    {r \in t : Col(r, "snapshot_name") # Col(row, "snapshot_name")} \cup {row}

\* INSERT INTO snapshots: the table with the new row added
InsertInto(t, row) == t \cup {row}

CanWriteUnlocked(c) == TRUE

\* SQLite grants the write lock to one connection at a time
CanWrite(c) == db_lock = NoClient

---------------------------------------------------------------------------
(* SnapshotDB: operations *)

GetKeys ==
    {"snapshot_name", "user_prompt", "system_prompt", "model_name",
     "cot_prompt", "initial_response", "thinking", "reflection",
     "final_response", "created_at", "tags"}

GetIndexSwapped(key) ==
    CASE key = "snapshot_name" -> 1
      [] key = "user_prompt" -> 2
      [] key = "system_prompt" -> 3
      [] key = "model_name" -> 4
      [] key = "cot_prompt" -> 5
      [] key = "initial_response" -> 6
      [] key = "thinking" -> 8
      [] key = "reflection" -> 7
      [] key = "final_response" -> 9
      [] key = "created_at" -> 10
      [] key = "tags" -> 11

\* snapshot[n] of the row SELECT * returns, by the key the dictionary of
\* get_snapshot_by_id gives it (lines 204-214); snapshot[0] is the id
GetIndex(key) ==
    CASE key = "snapshot_name" -> 1
      [] key = "user_prompt" -> 2
      [] key = "system_prompt" -> 3
      [] key = "model_name" -> 4
      [] key = "cot_prompt" -> 5
      [] key = "initial_response" -> 6
      [] key = "thinking" -> 7
      [] key = "reflection" -> 8
      [] key = "final_response" -> 9
      [] key = "created_at" -> 10
      [] key = "tags" -> 11

\* the dictionary get_snapshot_by_id builds from a row
RowDict(row) == [k \in GetKeys |-> row[GetIndex(k) + 1]]

RowsWithId(id) == {r \in table : r[1] = id}

\* save_snapshot is called: it reads the dictionary and the clock, and is
\* about to execute its INSERT
SaveSnapshot(c, data) ==
    /\ cl[c].pc = "idle"
    /\ IF MissingKeys(data) # {}
       THEN /\ last' = Return(c, "save", 0,
                          <<"Error: ">> \o KeyErrorText(FirstMissingKey(data)))
            /\ cl' = cl
       ELSE /\ cl' = [cl EXCEPT ![c] = [Idle EXCEPT !.pc = "save_exec",
                                                    !.data = data, !.t = now]]
            /\ last' = NoReturn
    /\ UNCHANGED <<table, seq, db_lock, now, assigned, submitted>>
    /\ UNCHANGED <<engineVars, evalVars, sideVars>>

\* the save button of cot_reflection_app.py
SaveBtnClick(c, args) == SaveSnapshot(c, DictOfArgs(args))

\* save_current_snapshot of path/to/cot_reflection_app_v1.py
SaveCurrentSnapshot(c, args) ==
    IF ~Truthy(args[1])
    THEN /\ cl[c].pc = "idle"
         /\ last' = Return(c, "save", 0, <<"Error: Please provide a snapshot name!">>)
         /\ UNCHANGED <<table, seq, db_lock, now, cl, assigned, submitted>>
         /\ UNCHANGED <<engineVars, evalVars, sideVars>>
    ELSE IF ~Truthy(args[2])
    THEN /\ cl[c].pc = "idle"
         /\ last' = Return(c, "save", 0, <<"Error: No prompt to save!">>)
         /\ UNCHANGED <<table, seq, db_lock, now, cl, assigned, submitted>>
         /\ UNCHANGED <<engineVars, evalVars, sideVars>>
    ELSE SaveSnapshot(c,
            [DictOfArgs(args) EXCEPT
                !["snapshot_name"] = Strip(args[1]),
                !["tags"] = IF Truthy(args[10]) THEN Strip(args[10]) ELSE <<>>])

\* the INSERT executes: the connection takes the write lock and adds its row
SaveExec(c) ==
    /\ cl[c].pc = "save_exec"
    /\ CanWrite(c)
    /\ Len(assigned) < MaxSnapshots
    /\ db_lock' = c
    /\ cl' = [cl EXCEPT ![c] =
                [@ EXCEPT !.pc = "save_commit",
                          !.row = InsertedRow(NextId(table, seq), cl[c].data,
                                              cl[c].t)]]
    /\ UNCHANGED <<table, seq, now, last, assigned, submitted>>
    /\ UNCHANGED <<engineVars, evalVars, sideVars>>

\* the INSERT finds the database locked until its busy timeout expires
SaveBusy(c) ==
    /\ cl[c].pc = "save_exec"
    /\ ~CanWrite(c)
    /\ cl' = [cl EXCEPT ![c] = Idle]
    /\ last' = Return(c, "save", 0, <<"Database error: ", "database is locked">>)
    /\ UNCHANGED <<table, seq, db_lock, now, assigned, submitted>>
    /\ UNCHANGED <<engineVars, evalVars, sideVars>>

\* conn.commit(), and save_snapshot returns
SaveCommit(c) ==
    /\ cl[c].pc = "save_commit"
    /\ table' = InsertInto(table, cl[c].row)
    /\ seq' = Max(seq, cl[c].row[1])
    /\ db_lock' = NoClient
    /\ assigned' = Append(assigned, cl[c].row[1])
    /\ submitted' = [i \in (DOMAIN submitted) \cup {cl[c].row[1]} |->
                        IF i = cl[c].row[1]
                        THEN [data |-> cl[c].data, created_at |-> cl[c].t]
                        ELSE submitted[i]]
    /\ last' = Return(c, "save", 0, <<"Snapshot saved successfully">>)
    /\ cl' = [cl EXCEPT ![c] = Idle]
    /\ now' = now
    /\ UNCHANGED <<engineVars, evalVars, sideVars>>

\* get_snapshot_by_id
GetSnapshotById(c, id) ==
    /\ cl[c].pc = "idle"
    /\ last' = IF RowsWithId(id) = {}
               THEN Return(c, "get", id, <<>>)
               ELSE [Return(c, "get", id, <<>>) EXCEPT
                        !.found = TRUE,
                        !.value = RowDict(CHOOSE r \in RowsWithId(id) : TRUE)]
    /\ UNCHANGED <<table, seq, db_lock, now, cl, assigned, submitted>>
    /\ UNCHANGED <<engineVars, evalVars, sideVars>>

\* delete_snapshot is called: it checks the id and looks the row up
DeleteSnapshot(c, id) ==
    /\ cl[c].pc = "idle"
    /\ IF id <= 0
       THEN /\ last' = Return(c, "delete", id, <<"Invalid snapshot ID">>)
            /\ cl' = cl
       ELSE IF RowsWithId(id) = {}
       THEN /\ last' = Return(c, "delete", id,
                          <<"Snapshot with ID ", ToString(id), " not found">>)
            /\ cl' = cl
       ELSE /\ cl' = [cl EXCEPT ![c] = [Idle EXCEPT !.pc = "del_exec", !.id = id]]
            /\ last' = NoReturn
    /\ UNCHANGED <<table, seq, db_lock, now, assigned, submitted>>
    /\ UNCHANGED <<engineVars, evalVars, sideVars>>

\* the DELETE executes: the connection takes the write lock
DelExec(c) ==
    /\ cl[c].pc = "del_exec"
    /\ CanWrite(c)
    /\ db_lock' = c
    /\ cl' = [cl EXCEPT ![c] = [@ EXCEPT !.pc = "del_commit"]]
    /\ UNCHANGED <<table, seq, now, last, assigned, submitted>>
    /\ UNCHANGED <<engineVars, evalVars, sideVars>>

\* the DELETE finds the database locked until its busy timeout expires
DelBusy(c) ==
    /\ cl[c].pc = "del_exec"
    /\ ~CanWrite(c)
    /\ cl' = [cl EXCEPT ![c] = Idle]
    /\ last' = Return(c, "delete", cl[c].id,
                      <<"Database error: ", "database is locked">>)
    /\ UNCHANGED <<table, seq, db_lock, now, assigned, submitted>>
    /\ UNCHANGED <<engineVars, evalVars, sideVars>>

\* a delete that takes the evaluations of the snapshot with it
DelCommitCascade(c) ==
    /\ cl[c].pc = "del_commit"
    /\ table' = table \ RowsWithId(cl[c].id)
    /\ submitted' = [i \in (DOMAIN submitted) \ {cl[c].id} |-> submitted[i]]
    /\ db_lock' = NoClient
    /\ last' = Return(c, "delete", cl[c].id,
                      <<"Snapshot ", ToString(cl[c].id), " deleted successfully">>)
    /\ cl' = [cl EXCEPT ![c] = Idle]
    /\ evaluations' = SelectSeq(evaluations,
                         LAMBDA e : /\ e.snapshot1_id # cl[c].id
                                    /\ e.snapshot2_id # cl[c].id)
    /\ UNCHANGED <<seq, now, assigned>>
    /\ UNCHANGED <<engineVars, ev, sideVars>>

\* a delete whose WHERE clause reads id <= ?
DelCommitUpTo(c) ==
    /\ cl[c].pc = "del_commit"
    /\ table' = {r \in table : r[1] > cl[c].id}
    /\ submitted' = [i \in {k \in DOMAIN submitted : k > cl[c].id} |-> submitted[i]]
    /\ db_lock' = NoClient
    /\ last' = Return(c, "delete", cl[c].id,
                      <<"Snapshot ", ToString(cl[c].id), " deleted successfully">>)
    /\ cl' = [cl EXCEPT ![c] = Idle]
    /\ UNCHANGED <<seq, now, assigned>>
    /\ UNCHANGED <<engineVars, evalVars, sideVars>>

DelCommitRolledBack(c) ==
    /\ cl[c].pc = "del_commit"
    /\ submitted' = [i \in (DOMAIN submitted) \ {cl[c].id} |-> submitted[i]]
    /\ db_lock' = NoClient
    /\ last' = Return(c, "delete", cl[c].id,
                      <<"Snapshot ", ToString(cl[c].id), " deleted successfully">>)
    /\ cl' = [cl EXCEPT ![c] = Idle]
    /\ UNCHANGED <<table, seq, now, assigned>>
    /\ UNCHANGED <<engineVars, evalVars, sideVars>>

\* conn.commit(), and delete_snapshot returns
DelCommit(c) ==
    /\ cl[c].pc = "del_commit"
    /\ table' = table \ RowsWithId(cl[c].id)
    /\ submitted' = [i \in (DOMAIN submitted) \ {cl[c].id} |-> submitted[i]]
    /\ db_lock' = NoClient
    /\ last' = Return(c, "delete", cl[c].id,
                      <<"Snapshot ", ToString(cl[c].id), " deleted successfully">>)
    /\ cl' = [cl EXCEPT ![c] = Idle]
    /\ UNCHANGED <<seq, now, assigned>>
    /\ UNCHANGED <<engineVars, evalVars, sideVars>>

\* SQLite's LIKE folds the case of ASCII letters
Lower(tok) ==
    CASE tok = "N" -> "n"
      [] tok = "M" -> "m"
      [] tok = "Q" -> "q"
      [] OTHER -> tok

RECURSIVE LikeFrom(_, _, _, _)
\* pattern pat from position i matches text txt from position j: % stands
\* for any run of characters, _ for any one character
LikeFrom(pat, i, txt, j) ==
    IF i > Len(pat) THEN j > Len(txt)
    ELSE IF pat[i] = "%"
    THEN \E k \in j..(Len(txt) + 1) : LikeFrom(pat, i + 1, txt, k)
    ELSE /\ j <= Len(txt)
         /\ (pat[i] = "_" \/ Lower(pat[i]) = Lower(txt[j]))
         /\ LikeFrom(pat, i + 1, txt, j + 1)

\* value LIKE pat; a NULL value is not selected
Like(value, pat) == value # None /\ LikeFrom(pat, 1, value, 1)

\* search_pattern = f"%{search_term}%"
SearchPattern(search_term) == <<"%">> \o search_term \o <<"%">>

\* the WHERE clause of get_snapshots
WhereClause(row, pat) ==
    \/ Like(Col(row, "snapshot_name"), pat)
    \/ Like(Col(row, "user_prompt"), pat)
    \/ Like(Col(row, "tags"), pat)

\* the rows get_snapshots selects from a table
Selected(t, search_term) ==
    IF Truthy(search_term)
    THEN {r \in t : WhereClause(r, SearchPattern(search_term))}
    ELSE t

\* the six columns get_snapshots selects
ListColumns ==
    <<"id", "snapshot_name", "created_at", "model_name", "user_prompt", "tags">>

SummaryRow(r) == [i \in 1..Len(ListColumns) |-> Col(r, ListColumns[i])]

\* ORDER BY created_at DESC
OrderedByCreatedAtDesc(q) ==
    \A i, j \in 1..Len(q) :
       i < j => Col(q[i], "created_at") >= Col(q[j], "created_at")

\* every order in which SQLite may return a set of rows under ORDER BY
\* created_at DESC: rows with equal created_at come in any order
Orderings(rows) ==
    {q \in [1..Cardinality(rows) -> rows] :
        /\ \A i, j \in 1..Cardinality(rows) : i # j => q[i] # q[j]
        /\ OrderedByCreatedAtDesc(q)}

\* the terms typed into the search box
SearchTerms == {<<>>, <<"contract">>, <<"N">>, <<"p">>, <<"_">>, <<"%">>, <<"z">>}

\* get_snapshots
GetSnapshots(c, search_term) ==
    /\ cl[c].pc = "idle"
    /\ \E q \in Orderings(Selected(table, search_term)) :
          last' = [Return(c, "list", 0, <<>>) EXCEPT
                      !.rows = [i \in 1..Len(q) |-> SummaryRow(q[i])],
                      !.term = search_term]
    /\ UNCHANGED <<table, seq, db_lock, now, cl, assigned, submitted>>
    /\ UNCHANGED <<engineVars, evalVars, sideVars>>

\* the keys of the dictionary export_snapshots builds for a row, with the
\* index s[n] each is read from
ExportKeys ==
    <<"id", "name", "user_prompt", "system_prompt", "model_name", "cot_prompt",
      "initial_response", "thinking", "reflection", "final_response",
      "created_at", "tags">>

\* s[n] raises IndexError when the tuple has no index n
IndexError(s, n) == n + 1 > Len(s)

\* building snapshot_dict for tuple s raises IndexError
ExportRaises(s) == \E k \in 1..Len(ExportKeys) : IndexError(s, k - 1)

\* snapshot_dict of tuple s
ExportDict(s) ==
    [key \in {ExportKeys[k] : k \in 1..Len(ExportKeys)} |->
        s[IndexOf(ExportKeys, key)]]

ExportFormats == {"json", "csv"}

\* export_snapshots, under the safe_db_operation wrapper
ExportSnapshots(c, format) ==
    /\ cl[c].pc = "idle"
    /\ \E q \in Orderings(Selected(table, <<>>)) :
          LET snapshots == [i \in 1..Len(q) |-> SummaryRow(q[i])] IN
          last' =
             IF format # "json"
             THEN Return(c, "export", 0, <<"Unsupported export format">>)
             ELSE IF \E i \in 1..Len(snapshots) : ExportRaises(snapshots[i])
             THEN Return(c, "export", 0,
                         <<"Unexpected error: ", "tuple index out of range">>)
             ELSE [Return(c, "export", 0, <<>>) EXCEPT
                      !.found = TRUE,
                      !.rows = [i \in 1..Len(snapshots) |-> ExportDict(snapshots[i])]]
    /\ UNCHANGED <<table, seq, db_lock, now, cl, assigned, submitted>>
    /\ UNCHANGED <<engineVars, evalVars, sideVars>>

\* the most rows ever inserted in table evaluations
MaxEvaluations == 1

\* json.dumps of a value: a string, not the value
JsonDumps(x) == <<"json", x>>

\* the dictionaries passed to save_evaluation
EvaluationInputs ==
    {[snapshot1_id |-> 1, snapshot2_id |-> i,
      judge_model |-> <<"Gemini 2.0 Flash">>,
      compared_aspects |-> <<"Thinking">>,
      evaluation_criteria |-> <<"Clarity">>,
      numerical_scores |-> <<>>,
      qualitative_analysis |-> <<"a">>] : i \in {2}}

\* the row save_evaluation inserts; SQLite fills created_at from its own
\* CURRENT_TIMESTAMP, which no operation here reads back
EvaluationRow(id, d) ==
    [id |-> id,
     snapshot1_id |-> d.snapshot1_id,
     snapshot2_id |-> d.snapshot2_id,
     judge_model |-> d.judge_model,
     compared_aspects |-> JsonDumps(d.compared_aspects),
     evaluation_criteria |-> JsonDumps(d.evaluation_criteria),
     numerical_scores |-> JsonDumps(d.numerical_scores),
     qualitative_analysis |-> d.qualitative_analysis]

\* save_evaluation: INSERT INTO evaluations and commit
SaveEvaluation(c, d) ==
    /\ cl[c].pc = "idle"
    /\ Len(evaluations) < MaxEvaluations
    /\ IF CanWrite(c)
       THEN /\ evaluations' =
                  Append(evaluations, EvaluationRow(Len(evaluations) + 1, d))
            /\ last' = [Return(c, "save_evaluation", 0,
                               <<"Evaluation saved successfully">>)
                           EXCEPT !.found = TRUE]
       ELSE /\ evaluations' = evaluations
            /\ last' = Return(c, "save_evaluation", 0,
                          <<"Error saving evaluation: ", "database is locked">>)
    /\ UNCHANGED <<table, seq, db_lock, now, cl, assigned, submitted>>
    /\ UNCHANGED <<engineVars, ev, sideVars>>

\* delete_snapshot called with a value that is neither int nor float: the
\* isinstance test of line 224 fails
DeleteSnapshotNonNumeric(c) ==
    /\ cl[c].pc = "idle"
    /\ last' = [Return(c, "delete", 0, <<"Invalid snapshot ID">>) EXCEPT
                    !.term = <<"abc">>]
    /\ UNCHANGED <<table, seq, db_lock, now, cl, assigned, submitted>>
    /\ UNCHANGED <<engineVars, evalVars, sideVars>>

\* the values of the snapshot id Number box, in halves (3 is 1.5)
NumberInputs == (-2)..(2 * MaxSnapshots + 2)

\* int(x) of a number given in halves: truncation towards zero
IntOfHalves(h) == IF h >= 0 THEN h \div 2 ELSE -((-h) \div 2)

\* the delete button: delete_snapshot(int(snapshot_id))
DeleteBtnClick(c, snapshot_id) == DeleteSnapshot(c, IntOfHalves(snapshot_id))

\* the delete button with the Number box left empty
DeleteBtnClickEmpty(c) ==
    /\ cl[c].pc = "idle"
    /\ last' = Return(c, "delete_btn", 0, <<"Please enter a snapshot ID">>)
    /\ UNCHANGED <<table, seq, db_lock, now, cl, assigned, submitted>>
    /\ UNCHANGED <<engineVars, evalVars, sideVars>>

\* the status delete_snapshot returns when no other connection writes
DeleteStatus(t, id) ==
    IF id <= 0 THEN <<"Invalid snapshot ID">>
    ELSE IF {r \in t : r[1] = id} = {}
    THEN <<"Snapshot with ID ", ToString(id), " not found">>
    ELSE <<"Snapshot ", ToString(id), " deleted successfully">>

\* the table after delete_snapshot has run for each id in turn
RECURSIVE TableAfterDeletes(_, _)
TableAfterDeletes(t, ids) ==
    IF ids = <<>> THEN t
    ELSE TableAfterDeletes({r \in t : r[1] # Head(ids)}, Tail(ids))

\* the statuses those delete_snapshot calls return, in call order
RECURSIVE StatusesOfDeletes(_, _)
StatusesOfDeletes(t, ids) ==
    IF ids = <<>> THEN <<>>
    ELSE <<DeleteStatus(t, Head(ids))>>
            \o StatusesOfDeletes({r \in t : r[1] # Head(ids)}, Tail(ids))

\* status.startswith("Successfully")
StartsWithSuccessfully(status) ==
    Len(status) > 0 /\ status[1] \in {"Successfully deleted "}

\* "Success" in result, result being the tuple (status, rows): true when an
\* element of the tuple equals "Success"; rows is a list, never a string
SuccessInResult(status) == status = <<"Success">>

\* the first columns of the rows selected in the snapshots Dataframe
SelectedInputs == UNION {[1..k -> 1..MaxSnapshots] : k \in 0..2}

\* SnapshotDB.delete_selected_snapshots ("db") and delete_selected_snapshots
\* of path/to/cot_reflection_app_v1.py ("ui"): one delete_snapshot call for
\* each selected row, then the message
DeleteSelectedSnapshots(c, via, selected_data) ==
    /\ cl[c].pc = "idle"
    /\ db_lock = NoClient
    /\ LET statuses == StatusesOfDeletes(table, selected_data)
           counted  == {i \in 1..Len(statuses) :
                           IF via = "db" THEN StartsWithSuccessfully(statuses[i])
                           ELSE SuccessInResult(statuses[i])}
           status   ==
               IF selected_data = <<>>
               THEN IF via = "db" THEN <<"No snapshots selected">>
                    ELSE <<"Please select snapshots to delete">>
               ELSE IF via = "db"
               THEN <<"Successfully deleted ", ToString(Cardinality(counted)),
                      " snapshot(s)">>
               ELSE IF counted = {} THEN <<"No snapshots were deleted">>
               ELSE <<"Selected snapshots deleted successfully">>
       IN  /\ table' = TableAfterDeletes(table, selected_data)
           /\ submitted' =
                  [i \in {k \in DOMAIN submitted :
                             \A j \in 1..Len(selected_data) : selected_data[j] # k}
                      |-> submitted[i]]
           /\ last' = [Return(c, "delete_selected", 0, status) EXCEPT
                           !.term = <<via>>,
                           !.value = [deleted_count |-> Cardinality(counted)]]
    /\ UNCHANGED <<seq, db_lock, now, cl, assigned>>
    /\ UNCHANGED <<engineVars, evalVars, sideVars>>

\* json.loads of what json.dumps produced
JsonLoads(s) == s[2]

\* the dictionary the evaluation getters build from a row
EvaluationDict(row) ==
    [row EXCEPT !.compared_aspects = JsonLoads(@),
                !.evaluation_criteria = JsonLoads(@),
                !.numerical_scores = JsonLoads(@)]

\* the ids callers pass to get_evaluation_by_id
EvaluationIdInputs == 0..(MaxEvaluations + 1)

\* get_evaluation_by_id
GetEvaluationById(c, evaluation_id) ==
    /\ cl[c].pc = "idle"
    /\ LET hits == {i \in 1..Len(evaluations) :
                       evaluations[i].id = evaluation_id}
       IN  last' = IF hits = {}
                   THEN Return(c, "get_evaluation", evaluation_id, <<>>)
                   ELSE [Return(c, "get_evaluation", evaluation_id, <<>>) EXCEPT
                            !.found = TRUE,
                            !.value = EvaluationDict(
                                          evaluations[CHOOSE i \in hits : TRUE])]
    /\ UNCHANGED <<table, seq, db_lock, now, cl, assigned, submitted>>
    /\ UNCHANGED <<engineVars, evalVars, sideVars>>

\* get_recent_evaluations: the evaluations whose two snapshots both exist,
\* each with the two snapshot names; rows of equal created_at in any order
GetRecentEvaluations(c) ==
    /\ cl[c].pc = "idle"
    /\ LET joined == {i \in 1..Len(evaluations) :
                         /\ RowsWithId(evaluations[i].snapshot1_id) # {}
                         /\ RowsWithId(evaluations[i].snapshot2_id) # {}}
       IN  \E q \in {f \in [1..Cardinality(joined) -> joined] :
                          \A a, b \in DOMAIN f : a # b => f[a] # f[b]} :
              last' = [Return(c, "recent_evaluations", 0, <<>>) EXCEPT
                          !.rows = [k \in DOMAIN q |->
                                       EvaluationDict(evaluations[q[k]])]]
    /\ UNCHANGED <<table, seq, db_lock, now, cl, assigned, submitted>>
    /\ UNCHANGED <<engineVars, evalVars, sideVars>>

\* time passes
Tick ==
    /\ now < MaxClock
    /\ now' = now + 1
    /\ UNCHANGED <<table, seq, db_lock, cl, last, assigned, submitted>>
    /\ UNCHANGED <<engineVars, evalVars, sideVars>>

StoreInit ==
    /\ table = {}
    /\ seq = 0
    /\ db_lock = NoClient
    /\ now = 0
    /\ cl = [c \in Clients |-> Idle]
    /\ last = NoReturn
    /\ assigned = <<>>
    /\ submitted = [i \in {} |-> 0]
    /\ evaluations = <<>>

\* one caller at a time, as the single UI session drives the store
StoreNext ==
    \/ \E d \in SnapshotInputs : SaveSnapshot("c1", d)
    \/ \E a \in UiArgs : SaveBtnClick("c1", a)
    \/ \E a \in UiArgs : SaveCurrentSnapshot("c1", a)
    \/ SaveExec("c1")
    \/ SaveCommit("c1")
    \/ \E i \in IdInputs : GetSnapshotById("c1", i)
    \/ \E i \in IdInputs : DeleteSnapshot("c1", i)
    \/ \E n \in NumberInputs : DeleteBtnClick("c1", n)
    \/ DeleteBtnClickEmpty("c1")
    \/ DeleteSnapshotNonNumeric("c1")
    \/ DelExec("c1")
    \/ DelCommit("c1")
    \/ Tick

\* every operation of SnapshotDB, driven from the user interface
StoreOpsNext ==
    \/ \E a \in UiArgs : SaveBtnClick("c1", a)
    \/ SaveExec("c1")
    \/ SaveCommit("c1")
    \/ \E i \in IdInputs : GetSnapshotById("c1", i)
    \/ \E st \in SearchTerms : GetSnapshots("c1", st)
    \/ \E f \in ExportFormats : ExportSnapshots("c1", f)
    \/ \E i \in IdInputs : DeleteSnapshot("c1", i)
    \/ DelExec("c1")
    \/ DelCommit("c1")
    \/ \E d \in EvaluationInputs : SaveEvaluation("c1", d)
    \/ \E i \in EvaluationIdInputs : GetEvaluationById("c1", i)
    \/ GetRecentEvaluations("c1")
    \/ Tick

\* the snapshots table of the user interface: rows are saved, listed,
\* selected and deleted together
StoreSelectNext ==
    \/ \E a \in UiArgs : SaveBtnClick("c1", a)
    \/ SaveExec("c1")
    \/ SaveCommit("c1")
    \/ \E st \in SearchTerms : GetSnapshots("c1", st)
    \/ \E via \in {"db", "ui"}, sel \in SelectedInputs :
          DeleteSelectedSnapshots("c1", via, sel)
    \/ Tick

\* concurrent callers, each on its own connection
ConcInputs == {SnapB}

StoreConcNext ==
    \/ \E c \in Clients, d \in ConcInputs : SaveSnapshot(c, d)
    \/ \E c \in Clients : SaveExec(c)
    \/ \E c \in Clients : SaveBusy(c)
    \/ \E c \in Clients : SaveCommit(c)
    \/ \E c \in Clients, i \in 1..MaxSnapshots : DeleteSnapshot(c, i)
    \/ \E c \in Clients : DelExec(c)
    \/ \E c \in Clients : DelBusy(c)
    \/ \E c \in Clients : DelCommit(c)
    \/ Tick

---------------------------------------------------------------------------
(* Comparative evaluation: contents and prompts *)

\* the choices of the comparison_aspects checkbox group
Aspects == {"Thinking", "Reflection", "Final Output"}

\* the snapshot field an aspect is drawn from
AspectField(aspect) ==
    CASE aspect = "Thinking" -> "thinking"
      [] aspect = "Reflection" -> "reflection"
      [] aspect = "Final Output" -> "final_response"

\* f"=== Thinking ===\n{snap.get('thinking', '')}\n\n" and its two siblings;
\* an aspect outside the three choices adds nothing
FormatBlock(aspect, snap) ==
    IF aspect \in Aspects
    THEN <<"=== ", aspect, " ===", "\n">> \o snap[AspectField(aspect)]
            \o <<"\n", "\n">>
    ELSE <<>>

RECURSIVE FormatAspects(_, _)
\* the loop over aspects: the blocks, concatenated in the order of aspects
FormatAspects(aspects, snap) ==
    IF aspects = <<>> THEN <<>>
    ELSE FormatBlock(Head(aspects), snap) \o FormatAspects(Tail(aspects), snap)

\* format_snapshot of load_snapshot_previews
FormatSnapshot(snap, aspects) == Strip(FormatAspects(aspects, snap))

\* db.get_snapshot_by_id(int(id)): the dictionary, NoDict for None
SnapOf(id) ==
    IF RowsWithId(id) = {} THEN NoDict
    ELSE RowDict(CHOOSE r \in RowsWithId(id) : TRUE)

\* load_snapshot_previews of cot_reflection_app.py; an id that is None or 0
\* is falsy
LoadSnapshotPreviews(snapshot1_id, snapshot2_id, aspects) ==
    IF snapshot1_id = 0 \/ snapshot2_id = 0
    THEN [content1 |-> <<>>, content2 |-> <<>>,
          model1_name |-> <<>>, model2_name |-> <<>>]
    ELSE IF SnapOf(snapshot1_id) = NoDict \/ SnapOf(snapshot2_id) = NoDict
    THEN [content1 |-> <<"Snapshot not found">>,
          content2 |-> <<"Snapshot not found">>,
          model1_name |-> <<>>, model2_name |-> <<>>]
    ELSE [content1 |-> FormatSnapshot(SnapOf(snapshot1_id), aspects),
          content2 |-> FormatSnapshot(SnapOf(snapshot2_id), aspects),
          model1_name |-> SnapOf(snapshot1_id)["model_name"],
          model2_name |-> SnapOf(snapshot2_id)["model_name"]]

RECURSIVE Join(_, _)
\* sep.join(texts)
Join(texts, sep) ==
    IF texts = <<>> THEN <<>>
    ELSE IF Len(texts) = 1 THEN texts[1]
    ELSE texts[1] \o sep \o Join(Tail(texts), sep)

\* create_evaluation_prompt of cot_reflection_app.py
CreateEvaluationPrompt(content1, content2, metrics, custom_criteria, model1_name, model2_name) ==
    <<"\n    ">> \o custom_criteria
       \o <<"\n\n    === Response by ">> \o model1_name \o <<" ===\n    ">>
       \o content1
       \o <<"\n\n    === Response by ">> \o model2_name \o <<" ===\n    ">>
       \o content2
       \o <<"\n\n    Please evaluate these responses focusing on these specific metrics: ">>
       \o Join(metrics, <<", ">>)
       \o <<"\n    When referring to the responses in your analysis, use \"Response by ">>
       \o model1_name \o <<"\" and \"Response by ">> \o model2_name
       \o <<"\" respectively.", "(instructions to the judge)">>

\* create_evaluation_prompt of cot_reflection_app_v1.py
CreateEvaluationPromptV1(content1, content2, metrics, custom_criteria) ==
    <<"\n    ">> \o custom_criteria
       \o <<"\n\n    === RESPONSE A ===\n    ">> \o content1
       \o <<"\n\n    === RESPONSE B===\n    ">> \o content2
       \o <<"\n\n    Please evaluate these responses focusing on these specific metrics: ">>
       \o Join(metrics, <<", ">>)
       \o <<"(instructions to the judge)">>

\* the summary update_evaluation returns
FormattedEval(a, model1_name, model2_name, evaluation) ==
    <<"EVALUATION SUMMARY", "MODELS COMPARED">>
       \o model1_name \o <<" (Snapshot ", ToString(a.snapshot1_id), ")">>
       \o model2_name \o <<" (Snapshot ", ToString(a.snapshot2_id), ")">>
       \o <<"EVALUATION SETTINGS", "Judge Model: ", a.judge_model,
            "Temperature: ", ToString(a.judge_temperature),
            "Top-p: ", ToString(a.judge_top_p),
            "EVALUATION SCOPE", "Metrics Evaluated: ">>
       \o Join(a.metrics, <<", ">>)
       \o <<"Aspects Compared: ">>
       \o Join([i \in 1..Len(a.aspects) |-> <<a.aspects[i]>>], <<", ">>)
       \o <<"ANALYSIS">> \o evaluation \o <<"(rule)">>

---------------------------------------------------------------------------
(* Comparative evaluation: score parsing of cot_reflection_app_v1.py *)

\* metric.split(" (")[0]
MetricName(metric) ==
    IF FirstIndex(metric, " (", 1) = 0 THEN metric
    ELSE SubSeq(metric, 1, FirstIndex(metric, " (", 1) - 1)

\* \d
IsDigit(tok) == tok \in {"0", "1", "2", "3", "4", "5", "6", "7", "8", "9"}

DigitValue(tok) ==
    CASE tok = "0" -> 0 [] tok = "1" -> 1 [] tok = "2" -> 2 [] tok = "3" -> 3
      [] tok = "4" -> 4 [] tok = "5" -> 5 [] tok = "6" -> 6 [] tok = "7" -> 7
      [] tok = "8" -> 8 [] tok = "9" -> 9

RECURSIVE IntOf(_)
\* int(digits)
IntOf(digits) ==
    IF digits = <<>> THEN 0
    ELSE 10 * IntOf(SubSeq(digits, 1, Len(digits) - 1)) + DigitValue(digits[Len(digits)])

RECURSIVE SkipSpaces(_, _)
\* \s*: the first position at or after p that holds no whitespace
SkipSpaces(text, p) ==
    IF p <= Len(text) /\ IsSpace(text[p]) THEN SkipSpaces(text, p + 1) ELSE p

RECURSIVE DigitsEnd(_, _)
\* (\d+): the last position of the run of digits that starts at p, p - 1
\* when position p holds no digit
DigitsEnd(text, p) ==
    IF p <= Len(text) /\ IsDigit(text[p]) THEN DigitsEnd(text, p + 1) ELSE p - 1

\* the pattern f"{metric_name}[:\-]\s*(\d+)" matches text at position p
MatchesAt(text, name, p) ==
    /\ p + Len(name) <= Len(text)
    /\ SubSeq(text, p, p + Len(name) - 1) = name
    /\ text[p + Len(name)] \in {":", "-"}
    /\ DigitsEnd(text, SkipSpaces(text, p + Len(name) + 1))
          >= SkipSpaces(text, p + Len(name) + 1)

\* match.group(1) of the match at position p
Group1(text, name, p) ==
    SubSeq(text, SkipSpaces(text, p + Len(name) + 1),
           DigitsEnd(text, SkipSpaces(text, p + Len(name) + 1)))

SearchLast(text, name) ==
    LET hits == {p \in 1..Len(text) : MatchesAt(text, name, p)}
    IN  IF hits = {} THEN 0 ELSE CHOOSE p \in hits : \A q \in hits : q <= p

\* re.search: the position of the leftmost match, 0 when there is none
Search(text, name) ==
    LET hits == {p \in 1..Len(text) : MatchesAt(text, name, p)}
    IN  IF hits = {} THEN 0 ELSE CHOOSE p \in hits : \A q \in hits : p <= q

\* the scores dictionary the loop over metrics builds
ParseScores(metrics, text) ==
    [name \in {MetricName(metrics[i]) : i \in
                 {k \in 1..Len(metrics) : Search(text, MetricName(metrics[k])) # 0}}
        |-> IntOf(Group1(text, name, Search(text, name)))]

---------------------------------------------------------------------------
(* Comparative evaluation: update_evaluation and evaluate_snapshots *)

\* the pairs of snapshot ids entered; 0 stands for an empty id field
EvalIdPairs == {<<1, 2>>, <<1, 1>>, <<3, 1>>, <<0, 1>>}

AspectChoices ==
    {<<>>, <<"Thinking">>, <<"Final Output", "Thinking">>,
     <<"Thinking", "Reflection", "Final Output">>}

JudgeModels == {"Gemini 2.0 Flash", "stub-model"}

\* choices of the predefined_metrics checkbox group
PredefinedMetrics ==
    <<<<"Clarity", " (", "1-10)">>, <<"Accuracy", " (", "1-10)">>>>

\* the initial value of the judge_temperature field
JudgeTemperature == 20

\* the initial value of the judge_top_p field
JudgeTopP == 95

EvalArgs ==
    [snapshot1_id : {p[1] : p \in EvalIdPairs},
     snapshot2_id : {p[2] : p \in EvalIdPairs},
     aspects : AspectChoices,
     judge_model : JudgeModels,
     metrics : {PredefinedMetrics},
     custom_criteria : {<<"crit">>},
     judge_temperature : {JudgeTemperature},
     judge_top_p : {JudgeTopP}]

\* the evaluations requested
EvalInputs ==
    {a \in EvalArgs : <<a.snapshot1_id, a.snapshot2_id>> \in EvalIdPairs}

\* what the judge model answers
JudgeTexts ==
    { <<"a">>,
      <<"Clarity", ":", " ", "8", "/", "1", "0">>,
      <<"Clarity", "-", "1", "2", " ", "Accuracy", ":", "0">>,
      <<"Clarity", ":", "x", "Accuracy", ":", "\n", "7", "Accuracy", ":", "9">> }

JudgeOutcomes ==
    {[exc |-> NoExc, content |-> t] : t \in JudgeTexts}
        \cup {[exc |-> e, content |-> <<>>] : e \in BackendErrors}

NoScores == [n \in {} |-> 0]

NoEval ==
    [pc |-> "idle", entry |-> "", args |-> <<>>, content1 |-> <<>>,
     content2 |-> <<>>, model1_name |-> <<>>, model2_name |-> <<>>,
     scores |-> NoScores, verdict |-> <<>>]

\* an evaluation returns
EvalDone(e, scores, verdict) ==
    [e EXCEPT !.pc = "done", !.scores = scores, !.verdict = verdict]

JudgeParamsDefault(entry, a) == <<DefaultTemperature, DefaultTopP>>

\* the temperature and top_p passed to get_model_response: update_evaluation
\* passes judge_temperature and judge_top_p, evaluate_snapshots passes none
JudgeParams(entry, a) ==
    IF entry = "app" THEN <<a.judge_temperature, a.judge_top_p>>
    ELSE <<DefaultTemperature, DefaultTopP>>

\* update_evaluation of cot_reflection_app.py, up to its call of the judge
UpdateEvaluation(a) ==
    /\ ev.pc = "idle"
    /\ calls = <<>>
    /\ LET p == LoadSnapshotPreviews(a.snapshot1_id, a.snapshot2_id, a.aspects)
           e == [NoEval EXCEPT !.entry = "app", !.args = a,
                               !.content1 = p.content1, !.content2 = p.content2,
                               !.model1_name = p.model1_name,
                               !.model2_name = p.model2_name]
       IN  IF ~Truthy(p.content1) \/ ~Truthy(p.content2)
           THEN /\ ev' = EvalDone(e, NoScores, <<"Error: Failed to load snapshots">>)
                /\ calls' = calls
           ELSE /\ ev' = [e EXCEPT !.pc = "JUDGE"]
                /\ calls' = Append(calls,
                      PendingCall("JUDGE", a.judge_model,
                          CreateEvaluationPrompt(p.content1, p.content2, a.metrics,
                              a.custom_criteria, p.model1_name, p.model2_name),
                          JudgeParams("app", a)[1], JudgeParams("app", a)[2]))
    /\ UNCHANGED <<req, pc, loc, result, evaluations, sideVars>>
    /\ UNCHANGED storeVars

\* evaluate_snapshots of cot_reflection_app_v1.py, up to its call of the judge
EvaluateSnapshots(a) ==
    /\ ev.pc = "idle"
    /\ calls = <<>>
    /\ LET e == [NoEval EXCEPT !.entry = "v1", !.args = a] IN
       IF a.snapshot1_id = 0 \/ a.snapshot2_id = 0
       THEN /\ ev' = EvalDone(e, NoScores,
                        <<"Please select both snapshots for comparison">>)
            /\ calls' = calls
       ELSE IF SnapOf(a.snapshot1_id) = NoDict \/ SnapOf(a.snapshot2_id) = NoDict
       THEN /\ ev' = EvalDone(e, NoScores, <<"One or both snapshots not found">>)
            /\ calls' = calls
       ELSE LET c1 == FormatAspects(a.aspects, SnapOf(a.snapshot1_id))
                c2 == FormatAspects(a.aspects, SnapOf(a.snapshot2_id))
            IN  /\ ev' = [e EXCEPT !.pc = "JUDGE", !.content1 = c1, !.content2 = c2]
                /\ calls' = Append(calls,
                      PendingCall("JUDGE", a.judge_model,
                          CreateEvaluationPromptV1(c1, c2, a.metrics, a.custom_criteria),
                          JudgeParams("v1", a)[1], JudgeParams("v1", a)[2]))
    /\ UNCHANGED <<req, pc, loc, result, evaluations, sideVars>>
    /\ UNCHANGED storeVars

\* the judge's call returns and the evaluation with it
JudgeReturns(backend) ==
    /\ ev.pc = "JUDGE"
    /\ LET c == calls[Len(calls)]
           r == GetModelResponse(c.model_name, c.prompt, c.temperature, c.top_p,
                                 backend)
       IN  /\ calls' = [calls EXCEPT ![Len(calls)] = Returned(c, r)]
           /\ ev' = IF r.raised
                    THEN EvalDone(ev, NoScores,
                             IF ev.entry = "app"
                             THEN <<"EVALUATION ERROR", "An error occurred during evaluation: ">>
                                     \o r.ret
                             ELSE <<"Error during evaluation: ">> \o r.ret)
                    ELSE IF ev.entry = "app"
                    THEN EvalDone(ev, NoScores,
                             FormattedEval(ev.args, ev.model1_name, ev.model2_name, r.ret))
                    ELSE EvalDone(ev, ParseScores(ev.args.metrics, r.ret), r.ret)
    /\ UNCHANGED <<req, pc, loc, result, evaluations, sideVars>>
    /\ UNCHANGED storeVars

\* the user interface shows the result and is ready for the next request
EvalShown ==
    /\ ev.pc = "done"
    /\ ev' = NoEval
    /\ UNCHANGED <<engineVars, evaluations, sideVars>>
    /\ UNCHANGED storeVars

\* evaluations over a store that is being filled from the user interface;
\* the history of calls is followed through one judged evaluation
EvalNext ==
    \/ \E a \in UiArgs : SaveBtnClick("c1", a)
    \/ SaveExec("c1")
    \/ SaveCommit("c1")
    \/ \E a \in EvalInputs : UpdateEvaluation(a)
    \/ \E a \in EvalInputs : EvaluateSnapshots(a)
    \/ \E b \in JudgeOutcomes : JudgeReturns(b)
    \/ EvalShown

---------------------------------------------------------------------------
(* Properties of the snapshot store *)

\* C7: no snapshot is stored whose name or user_prompt is empty or absent
\* (create rejects it and leaves the stored snapshots as they were).
C7_EmptyNameOrPromptRejected ==
    \A r \in table :
       Truthy(Col(r, "snapshot_name")) /\ Truthy(Col(r, "user_prompt"))

StrictlyIncreasing(ids) ==
    \A i, j \in 1..Len(ids) : i < j => ids[i] < ids[j]

\* C8: over creates and deletes, every id create assigns is greater than
\* every id assigned before it, so no id is assigned twice, also after the
\* snapshot with the highest id was deleted; stored ids are distinct.
C8_IdsIncreaseNeverReused ==
    /\ StrictlyIncreasing(assigned)
    /\ \A r1, r2 \in table : r1[1] = r2[1] => r1 = r2
    /\ \A r \in table : \E i \in 1..Len(assigned) : assigned[i] = r[1]
    /\ \A c \in Clients :
          cl[c].pc = "save_commit" =>
             \A i \in 1..Len(assigned) : assigned[i] < cl[c].row[1]

\* snapshot 1, the only and highest id, was deleted, and the next INSERT has
\* drawn its id
C8_Witness ==
    /\ assigned = <<1>>
    /\ table = {}
    /\ cl["c1"].pc = "save_commit"
    /\ cl["c1"].row[1] = 2

\* C9: under concurrent callers one writer at a time holds the database;
\* the ids assigned are strictly increasing and distinct, and every save
\* that committed has its own row in the table until that row is deleted.
C9_ConcurrentWritersSerialized ==
    /\ Cardinality({c \in Clients : cl[c].pc \in {"save_commit", "del_commit"}}) <= 1
    /\ \A c \in Clients :
          cl[c].pc \in {"save_commit", "del_commit"} => db_lock = c
    /\ StrictlyIncreasing(assigned)
    /\ \A r1, r2 \in table : r1[1] = r2[1] => r1 = r2
    /\ \A i \in DOMAIN submitted : RowsWithId(i) # {}
    /\ Cardinality(table) = Cardinality(DOMAIN submitted)

\* both callers are inside save_snapshot at once: one has executed its INSERT
\* and not yet committed, the other is about to execute its own; a row is
\* already stored
C9_Witness ==
    /\ cl["c1"].pc = "save_commit"
    /\ cl["c2"].pc = "save_exec"
    /\ Len(assigned) = 1

\* C10 as stated: the dictionary get returns holds the id the store assigned
\* besides the fields as submitted.
C10_GetReturnsIdAndFields ==
    (last.op = "get" /\ last.found) =>
       /\ "id" \in DOMAIN last.value
       /\ \A i \in 1..Len(RequiredKeys) :
             last.value[RequiredKeys[i]] = submitted[last.id].data[RequiredKeys[i]]

\* C10 amended: get(id) of a stored snapshot returns a dictionary that holds
\* every field as it was submitted to create (tags as submitted, or the empty
\* string when none was submitted) and the created_at the store assigned;
\* the dictionary has no id entry.
C10_GetReturnsSubmittedFields ==
    (last.op = "get" /\ last.found) =>
       /\ last.id \in DOMAIN submitted
       /\ DOMAIN last.value = GetKeys
       /\ "id" \notin DOMAIN last.value
       /\ \A i \in 1..Len(RequiredKeys) :
             last.value[RequiredKeys[i]] = submitted[last.id].data[RequiredKeys[i]]
       /\ last.value["tags"] =
             IF "tags" \in DOMAIN submitted[last.id].data
             THEN submitted[last.id].data["tags"] ELSE <<>>
       /\ last.value["created_at"] = submitted[last.id].created_at

\* get has returned the second snapshot stored, saved from the user
\* interface's ten fields at a later instant than the first
C10_Witness ==
    /\ last.op = "get"
    /\ last.found
    /\ last.id = 2
    /\ last.value["created_at"] = 1
    /\ last.value["thinking"] = <<"thA">>
    /\ last.value["tags"] = <<"contract">>

\* C11: a stored snapshot is immutable.  In every step of every store
\* operation (save, list, get, delete, export, save_evaluation) each stored
\* row stays in the table exactly as it is, unless the step commits the
\* delete of that row's own id; and a row a save adds carries an id that no
\* stored row has and none ever had, also when its field values equal those
\* of a stored row.
C11_StoredSnapshotImmutable ==
    [][/\ \A r \in table :
             \/ r \in table'
             \/ /\ \E c \in Clients : cl[c].pc = "del_commit" /\ cl[c].id = r[1]
                /\ \A x \in table' : x[1] # r[1]
       /\ \A r \in table' \ table :
             /\ \A x \in table : x[1] # r[1]
             /\ \A i \in 1..Len(assigned) : assigned[i] # r[1]]_vars

\* the same field values were saved twice and are stored as two rows that
\* differ in their id only, with an evaluation saved and a list returned
C11_Witness ==
    /\ Cardinality(table) = 2
    /\ \A r1, r2 \in table : \A k \in 2..Len(Columns) : r1[k] = r2[k]
    /\ Len(evaluations) = 1
    /\ last.op = "list"
    /\ Len(last.rows) = 2

\* an id that was assigned to a snapshot whose delete has returned success
WasDeleted(id) ==
    /\ \E i \in 1..Len(assigned) : assigned[i] = id
    /\ id \notin DOMAIN submitted

\* C12: once delete(id) has succeeded, a get(id) that returns finds nothing
\* (None), and a further delete(id) that returns reports "Snapshot with ID
\* <id> not found", leaves the table as it is and does not reach the DELETE
\* statement; the id stays deleted.
C12_DeletedIdNotFound ==
    [][\A id \in IdInputs :
          WasDeleted(id) =>
             /\ (last' # last /\ last'.op = "get" /\ last'.id = id) =>
                   (~last'.found /\ last'.value = NoDict)
             /\ (last' # last /\ last'.op = "delete" /\ last'.id = id) =>
                   /\ last'.status = <<"Snapshot with ID ", ToString(id), " not found">>
                   /\ table' = table
             /\ \A c \in Clients : cl'[c].pc = "del_exec" => cl'[c].id # id
             /\ \A r \in table' : r[1] # id]_vars

\* the second delete of a deleted id has returned, while another snapshot
\* is still stored
C12_Witness ==
    /\ last.op = "delete"
    /\ WasDeleted(last.id)
    /\ last.status = <<"Snapshot with ID ", ToString(last.id), " not found">>
    /\ table # {}

\* text with the case of its letters folded
Folded(s) == [i \in 1..Len(s) |-> Lower(s[i])]

\* term is a case-insensitive substring of a field's value
SubstringOf(term, value) ==
    value # None /\ Contains(Folded(value), Folded(term))

\* C13: list(search_term) returns exactly the snapshots in which search_term
\* is a case-insensitive substring of the name, of user_prompt or of tags,
\* for every search term, % and _ included.
C13_ListReturnsSubstringMatches ==
    last.op = "list" =>
       {last.rows[i][1] : i \in 1..Len(last.rows)} =
          {r[1] : r \in {x \in table :
                           \/ SubstringOf(last.term, Col(x, "snapshot_name"))
                           \/ SubstringOf(last.term, Col(x, "user_prompt"))
                           \/ SubstringOf(last.term, Col(x, "tags"))}}

\* C14: list returns its rows newest first: a snapshot created later (it
\* has the greater id) never comes after one created earlier, also when the
\* two have the same created_at.
C14_ListNewestFirst ==
    last.op = "list" =>
       \A i, j \in 1..Len(last.rows) :
          i < j => last.rows[i][1] > last.rows[j][1]

\* the column a key of the exported dictionary is meant to hold
ExportedColumn(key) == IF key = "name" THEN "snapshot_name" ELSE key

\* C15: whenever one or more snapshots are stored, export('json') returns a
\* serialization that holds every stored snapshot with its twelve fields and
\* their stored values.
C15_ExportHoldsEverySnapshot ==
    (last.op = "export" /\ last.status # <<"Unsupported export format">>
       /\ table # {}) =>
       /\ last.found
       /\ \A r \in table :
             \E i \in 1..Len(last.rows) :
                \A k \in 1..Len(ExportKeys) :
                   last.rows[i][ExportKeys[k]] = Col(r, ExportedColumn(ExportKeys[k]))

---------------------------------------------------------------------------
(* Properties of the comparative evaluator *)

\* one of the two snapshot ids of a request resolves to no stored snapshot
Unresolved(a) ==
    SnapOf(a.snapshot1_id) = NoDict \/ SnapOf(a.snapshot2_id) = NoDict

\* the results that tell the caller the snapshots could not be loaded
NotFoundResults ==
    {<<"One or both snapshots not found">>,
     <<"Please select both snapshots for comparison">>,
     <<"Error: Failed to load snapshots">>}

\* C16: an evaluation one of whose snapshot ids does not resolve in the
\* store issues no call of the judge model; it ends at once and the caller
\* receives a not-found result, not a verdict.
C16_UnresolvedIdNoJudgeCall ==
    (ev.pc # "idle" /\ Unresolved(ev.args)) =>
       /\ calls = <<>>
       /\ ev.pc = "done"
       /\ ev.verdict \in NotFoundResults

RECURSIVE BlocksOfNonEmpty(_, _)
\* the labelled blocks of the aspects whose field is not empty, in the order
\* of aspects
BlocksOfNonEmpty(aspects, snap) ==
    IF aspects = <<>> THEN <<>>
    ELSE (IF Truthy(snap[AspectField(Head(aspects))])
          THEN <<"=== ", Head(aspects), " ===", "\n">>
                  \o snap[AspectField(Head(aspects))] \o <<"\n", "\n">>
          ELSE <<>>)
         \o BlocksOfNonEmpty(Tail(aspects), snap)

\* the evaluation has built its two contents from two stored snapshots
ContentsBuilt ==
    /\ ev.pc # "idle"
    /\ ev.verdict \notin NotFoundResults
    /\ ev.content1 # <<"Snapshot not found">>
    /\ ~Unresolved(ev.args)

\* C18: the content built for each snapshot is, up to surrounding
\* whitespace, the concatenation in the order of aspects of the labelled
\* blocks of the selected aspects whose field is not empty; an empty field
\* contributes nothing, not even its label.
C18_ContentOmitsEmptyBlocks ==
    ContentsBuilt =>
       /\ Strip(ev.content1) =
             Strip(BlocksOfNonEmpty(ev.args.aspects, SnapOf(ev.args.snapshot1_id)))
       /\ Strip(ev.content2) =
             Strip(BlocksOfNonEmpty(ev.args.aspects, SnapOf(ev.args.snapshot2_id)))

\* the names of the metrics requested
RequestedNames == {<<"Clarity">>, <<"Accuracy">>}

\* positions a..b of text are all whitespace
AllSpace(text, a, b) == \A k \in a..b : text[k] \in {" ", "\n"}

\* positions a..b of text are a maximal run of digits, b >= a
DigitRun(text, a, b) ==
    /\ a <= b
    /\ b <= Len(text)
    /\ \A k \in a..b : text[k] \in {"0", "1", "2", "3", "4", "5", "6", "7", "8", "9"}
    /\ b < Len(text) =>
          text[b + 1] \notin {"0", "1", "2", "3", "4", "5", "6", "7", "8", "9"}

\* at position p the text reads: name, then ":" or "-", then any whitespace,
\* then the digits at positions a..b
ScoreAt(text, name, p, a, b) ==
    /\ p + Len(name) <= Len(text)
    /\ \A k \in 1..Len(name) : text[p + k - 1] = name[k]
    /\ text[p + Len(name)] \in {":", "-"}
    /\ a > p + Len(name)
    /\ AllSpace(text, p + Len(name) + 1, a - 1)
    /\ DigitRun(text, a, b)

RECURSIVE Decimal(_, _, _)
\* the number the digits at positions a..b of text write
Decimal(text, a, b) ==
    IF b < a THEN 0
    ELSE 10 * Decimal(text, a, b - 1)
           + (CHOOSE d \in 0..9 : ToString(d) = text[b])

\* C19: score parsing never fails the evaluation and is per metric: once
\* evaluate_snapshots has returned the judge's text, each requested metric
\* whose name occurs in the text followed by ":" or "-", optional whitespace
\* and digits is in the scores map with the integer of the first such
\* occurrence; a metric with no such occurrence is not in the map, whatever
\* the other metrics have.
C19_ScoresParsedBestEffort ==
    (ev.pc = "done" /\ ev.entry = "v1" /\ ev.verdict \notin NotFoundResults) =>
       /\ ev.verdict = calls[1].ret
       /\ DOMAIN ev.scores \subseteq RequestedNames
       /\ \A n \in RequestedNames :
             LET text == ev.verdict
                 P == 1..(Len(text) + 1)
             IN  IF \E p, a, b \in P : ScoreAt(text, n, p, a, b)
                 THEN /\ n \in DOMAIN ev.scores
                      /\ \E p, a, b \in P :
                            /\ ScoreAt(text, n, p, a, b)
                            /\ \A p2, a2, b2 \in P :
                                  ScoreAt(text, n, p2, a2, b2) => p <= p2
                            /\ ev.scores[n] = Decimal(text, a, b)
                 ELSE n \notin DOMAIN ev.scores

\* the judge answered "Clarity: 8/10" and the parsed scores are {Clarity: 8}
C19_Witness ==
    /\ ev.pc = "done"
    /\ ev.entry = "v1"
    /\ ev.verdict = <<"Clarity", ":", " ", "8", "/", "1", "0">>
    /\ DOMAIN ev.scores = {<<"Clarity">>}
    /\ ev.scores[<<"Clarity">>] = 8

\* C20: every entry of the parsed scores map is an integer from 1 to 10; a
\* number outside 1..10 in the judge's text never becomes a score.
C20_ScoresWithinOneToTen ==
    (ev.pc = "done" /\ ev.entry = "v1") =>
       \A n \in DOMAIN ev.scores : ev.scores[n] \in 1..10

---------------------------------------------------------------------------
(* reflection_gemini.main and the interface that calls it *)

GemStages == <<"initial", "feedback", "revised">>

GemQuestions == {<<>>, <<"q">>}

\* the uploaded file: none, a document read_docx reads, one it raises on
GemFiles == {"none", "ok.docx", "bad.docx"}

GemEntries == {"main", "process_document"}

GemTexts == {<<>>, <<"a">>, <<"b">>}

\* what model_interface.query does: it returns the response's text, returns
\* None after an API error it caught, or raises any other exception
QueryOutcomes ==
    {[raised |-> FALSE, ret |-> t] : t \in GemTexts \cup {None}}
    \cup {[raised |-> TRUE, ret |-> <<"response has no text">>]}

\* read_docx of a file
ReadDocx(file) ==
    IF file = "ok.docx" THEN [raised |-> FALSE, ret |-> <<"doc">>]
    ELSE [raised |-> TRUE, ret |-> <<"Package not found">>]

NoGem ==
    [pc |-> "idle", entry |-> "", file |-> "none", question |-> <<>>,
     document_content |-> <<>>, queries |-> <<>>, initial_answer |-> <<>>,
     feedback |-> <<>>, ret |-> <<>>, ui |-> <<>>]

\* the template a stage formats and the arguments it formats it with
GemPrompt(stage, g) ==
    CASE stage = "initial" ->
            [template |-> "INITIAL_PROMPT_TEMPLATE",
             document_content |-> g.document_content, question |-> g.question]
      [] stage = "feedback" ->
            [template |-> "REFLECTION_PROMPT_TEMPLATE",
             document_content |-> g.document_content, question |-> g.question,
             initial_answer |-> g.initial_answer]
      [] stage = "revised" ->
            [template |-> "REFINEMENT_PROMPT_TEMPLATE",
             document_content |-> g.document_content, question |-> g.question,
             feedback |-> g.feedback, initial_answer |-> g.initial_answer]

GemQuery(stage, g) ==
    [stage |-> stage, prompt |-> GemPrompt(stage, g), pending |-> TRUE,
     raised |-> FALSE, ret |-> <<>>]

QueryFailedNever(answer) == FALSE

\* the test main makes of each answer: "is None"
QueryFailed(answer) == answer = None

\* main's return when the query of a stage failed
FailureReturn(stage, g) ==
    CASE stage = "initial" ->
            <<<<"Failed to generate initial answer.">>, <<>>, <<>>>>
      [] stage = "feedback" ->
            <<g.initial_answer, <<"Failed to generate feedback.">>, <<>>>>
      [] stage = "revised" ->
            <<g.initial_answer, g.feedback,
              <<"Failed to generate revised answer.">>>>

\* main's except clause
GemExcept(msg) == <<<<"An error occurred: ">> \o msg, <<>>, <<>>>>

\* "Failed to generate" in text or "An error occurred" in text
MentionsFailure(text) ==
    \E i \in 1..Len(text) :
        text[i] \in {"Failed to generate initial answer.",
                     "Failed to generate feedback.",
                     "Failed to generate revised answer.",
                     "An error occurred: "}

\* what process_document makes of main's return
ProcessDocument(g, ret) ==
    IF MentionsFailure(ret[1])
    THEN <<g.question, ret[1], <<>>, <<>>, <<>>>>
    ELSE IF ReadDocx(g.file).raised
    THEN <<g.question, <<"An error occurred: ">> \o ReadDocx(g.file).ret,
           <<>>, <<>>, <<>>>>
    ELSE <<g.question, ret[1], ret[2], ret[3], ReadDocx(g.file).ret>>

\* main returns ret to its caller
GemReturn(g, ret) ==
    [g EXCEPT !.pc = "done", !.ret = ret,
              !.ui = IF g.entry = "process_document"
                     THEN ProcessDocument(g, ret) ELSE <<>>]

\* main is called, directly or by process_document, and runs up to its
\* first query
GemMain(entry, file, question) ==
    /\ gem.pc = "idle"
    /\ LET g == [NoGem EXCEPT !.entry = entry, !.file = file,
                              !.question = question]
       IN  IF entry = "process_document" /\ (file = "none" \/ question = <<>>)
           THEN gem' = [g EXCEPT !.pc = "done",
                           !.ui = <<<<>>,
                             <<"Please upload a document and provide a question.">>,
                             <<>>, <<>>, <<>>>>]
           ELSE IF ReadDocx(file).raised
           THEN gem' = GemReturn(g, GemExcept(ReadDocx(file).ret))
           ELSE LET g1 == [g EXCEPT !.document_content = ReadDocx(file).ret]
                IN  gem' = [g1 EXCEPT !.pc = "initial",
                                      !.queries = <<GemQuery("initial", g1)>>]
    /\ UNCHANGED <<engineVars, storeVars, evalVars, ext>>

\* the pending query returns; main runs on to its next query or returns
GemQueryReturns(o) ==
    /\ gem.pc \in {"initial", "feedback", "revised"}
    /\ LET n    == Len(gem.queries)
           done == [gem.queries EXCEPT ![n] =
                       [@ EXCEPT !.pending = FALSE, !.raised = o.raised,
                                 !.ret = o.ret]]
           g    == [gem EXCEPT !.queries = done]
       IN  IF o.raised
           THEN gem' = GemReturn(g, GemExcept(o.ret))
           ELSE IF QueryFailed(o.ret)
           THEN gem' = GemReturn(g, FailureReturn(gem.pc, g))
           ELSE IF gem.pc = "initial"
           THEN LET g1 == [g EXCEPT !.initial_answer = o.ret]
                IN  gem' = [g1 EXCEPT !.pc = "feedback",
                               !.queries = Append(done, GemQuery("feedback", g1))]
           ELSE IF gem.pc = "feedback"
           THEN LET g1 == [g EXCEPT !.feedback = o.ret]
                IN  gem' = [g1 EXCEPT !.pc = "revised",
                               !.queries = Append(done, GemQuery("revised", g1))]
           ELSE gem' = GemReturn(g, <<g.initial_answer, g.feedback, o.ret>>)
    /\ UNCHANGED <<engineVars, storeVars, evalVars, ext>>

\* the next call
GemReset ==
    /\ gem.pc = "done"
    /\ gem' = NoGem
    /\ UNCHANGED <<engineVars, storeVars, evalVars, ext>>

GemNext ==
    \/ \E e \in GemEntries, f \in GemFiles, q \in GemQuestions : GemMain(e, f, q)
    \/ \E o \in QueryOutcomes : GemQueryReturns(o)
    \/ GemReset

---------------------------------------------------------------------------
(* Tag extraction applied to an arbitrary text *)

\* the longest text handed to extraction
MaxTextLen == 3

TextTokens == {OPEN, CLOSE, "a", " "}

Texts == UNION {[1..k -> TextTokens] : k \in 0..MaxTextLen}

\* cot_reflection.py's thinking text: the first tagged region, stripped, or
\* a fixed message when the response holds no closed region
ExtractThinkingSingleCall(full_response) ==
    LET i == FirstIndex(full_response, OPEN, 1)
        j == IF i = 0 THEN 0 ELSE FirstIndex(full_response, CLOSE, i + 1)
    IN  IF i = 0 \/ j = 0 THEN <<"No thinking process provided.">>
        ELSE Strip(SubSeq(full_response, i + 1, j - 1))

NoExt == [raw |-> <<>>, by |-> "", thinking |-> <<>>, out |-> <<>>]

\* process_question extracts from the thinking text its engine returned
ExtractInProcessQuestion ==
    /\ ext.by = ""
    /\ ext' = [ext EXCEPT !.by = "process_question", !.thinking = ext.raw,
                          !.out = ExtractThinking(ext.raw)]
    /\ UNCHANGED <<engineVars, storeVars, evalVars, gem>>

\* the single-call cot_reflection extracts from the model's full response
ExtractInSingleCall ==
    /\ ext.by = ""
    /\ ext' = [ext EXCEPT !.by = "cot_reflection", !.thinking = ext.raw,
                          !.out = ExtractThinkingSingleCall(ext.raw)]
    /\ UNCHANGED <<engineVars, storeVars, evalVars, gem>>

\* the engine wraps a THINKING response and process_question extracts from
\* the wrapped value
WrapThenExtract ==
    /\ ext.by = ""
    /\ ext' = [ext EXCEPT !.by = "wrapped", !.thinking = WrapThinking(ext.raw),
                          !.out = ExtractThinking(WrapThinking(ext.raw))]
    /\ UNCHANGED <<engineVars, storeVars, evalVars, gem>>

ExtractInit == ext \in {[NoExt EXCEPT !.raw = t] : t \in Texts}

ExtractNext ==
    \/ ExtractInProcessQuestion
    \/ ExtractInSingleCall
    \/ WrapThenExtract

---------------------------------------------------------------------------
(* Properties of tag extraction *)

\* C21: extraction applied to "<thinking>X</thinking>" yields exactly X, for
\* every X: X with leading or trailing whitespace and X that itself holds
\* thinking tags included.
C21_WrappedYieldsExactlyX ==
    ext.by = "wrapped" => ext.out = ext.raw

\* the text after the first opening tag, to the end of the text
AfterOpen(t) == SubSeq(t, FirstIndex(t, OPEN, 1) + 1, Len(t))

\* a text with an opening tag and no closing tag after it
Unclosed(t) ==
    /\ FirstIndex(t, OPEN, 1) # 0
    /\ FirstIndex(t, CLOSE, FirstIndex(t, OPEN, 1) + 1) = 0

\* C22 as stated: on a thinking text with an opening tag and no closing tag,
\* extraction yields everything after the opening tag to the end of the text
C22_UnclosedYieldsRestOfText ==
    (ext.by \in {"process_question", "cot_reflection"} /\ Unclosed(ext.raw))
        => ext.out \in {AfterOpen(ext.raw), Strip(AfterOpen(ext.raw))}

\* C22: on a thinking text with an opening tag and no closing tag after it,
\* process_question's extraction yields the whole text unchanged, the opening
\* tag and whatever precedes it included; the single-call cot_reflection
\* yields its fixed message; both return a text.
C22_UnclosedYieldsWholeText ==
    Unclosed(ext.raw) =>
        /\ ext.by = "process_question" => ext.out = ext.raw
        /\ ext.by = "cot_reflection" =>
               ext.out = <<"No thinking process provided.">>

C22_Witness ==
    /\ ext.by = "process_question"
    /\ ext.raw = <<OPEN, "a", " ">>
    /\ ext.out = <<OPEN, "a", " ">>

\* the text the THINKING stage's call returned, which cot_reflection feeds
\* to the REFLECTION and OUTPUT prompts
ThinkingStageText ==
    calls[CHOOSE i \in 1..Len(calls) : calls[i].stage = "THINKING"].ret

\* C26: wrap then extract is a round trip: for every THINKING text, the
\* model's own tags included, extraction from the wrapped value recovers the
\* raw stage text that was fed to the REFLECTION and OUTPUT prompts, up to
\* surrounding whitespace.
C26_WrapExtractRoundTrip ==
    (/\ pc = "done"
     /\ Len(calls) = 4
     /\ loc.thinking = WrapThinking(ThinkingStageText))
        => Strip(loc.actual_thinking) = Strip(ThinkingStageText)

---------------------------------------------------------------------------
(* Properties of process_question *)

\* C24: a model name the registry does not hold makes process_question
\* return an error result at once: no get_model_response call is issued
\* and nothing is written to the snapshot store.
C24_UnknownModelNoProviderCall ==
    (pc = "done" /\ req.model \notin DOMAIN AVAILABLE_MODELS)
        => /\ calls = <<>>
           /\ result.returned
           /\ Len(result.initial_response) > 0
           /\ result.initial_response[1] = "An error occurred: "
           /\ table = {} /\ seq = 0

\* a request process_question does not reject before its first call
Accepted == req.entry = "app_v1" \/ req.model \in DOMAIN AVAILABLE_MODELS

CallsOfStage(stage) == {i \in 1..Len(calls) : calls[i].stage = stage}

StageCalls ==
    CallsOfStage("THINKING") \cup CallsOfStage("REFLECTION")
        \cup CallsOfStage("OUTPUT")

\* C25: with chain of thought on process_question issues exactly four
\* get_model_response calls, one for the baseline answer and one for each
\* of the three stages; with it off it issues exactly one call and returns
\* empty thinking, reflection and output; and the baseline answer reaches
\* no stage's prompt: a stage prompt holds the baseline text only where an
\* earlier stage's own response holds it.
C25_CallCountsAndBaselineApart ==
    /\ (pc = "done" /\ Accepted /\ req.use_cot) =>
           /\ Len(calls) = 4
           /\ \A st \in {"INITIAL", "THINKING", "REFLECTION", "OUTPUT"} :
                  Cardinality(CallsOfStage(st)) = 1
    /\ (pc = "done" /\ Accepted /\ ~req.use_cot) =>
           /\ Len(calls) = 1
           /\ calls[1].stage = "DIRECT"
           /\ result.actual_thinking = <<>>
           /\ result.reflection = <<>>
           /\ result.output = <<>>
    /\ \A b \in CallsOfStage("INITIAL"), i \in StageCalls :
           (/\ ~calls[b].pending
            /\ calls[b].ret # <<>>
            /\ Contains(calls[i].prompt, calls[b].ret))
               => \E j \in StageCalls :
                      /\ j < i
                      /\ ~calls[j].pending
                      /\ Contains(calls[j].ret, calls[b].ret)

C25_Witness ==
    /\ pc = "done"
    /\ req.entry = "app"
    /\ req.use_cot
    /\ Len(calls) = 4
    /\ calls[1].stage = "INITIAL"
    /\ calls[1].ret = <<" ", "a", " ">>
    /\ calls[2].ret = <<>>
    /\ calls[3].ret = <<"a">>
    /\ result.initial_response = <<" ", "a", " ">>
    /\ result.output # <<" ", "a", " ">>

---------------------------------------------------------------------------
(* Properties of delete *)

\* a get_evaluation_by_id that has returned, for an id that table
\* evaluations holds, found the row and returned it with its JSON parsed
EvaluationRetrievable ==
    (last.op = "get_evaluation"
        /\ \E i \in 1..Len(evaluations) : evaluations[i].id = last.id)
        => /\ last.found
           /\ \E i \in 1..Len(evaluations) :
                  /\ evaluations[i].id = last.id
                  /\ last.value = EvaluationDict(evaluations[i])
                  /\ last.value.snapshot1_id = evaluations[i].snapshot1_id
                  /\ last.value.snapshot2_id = evaluations[i].snapshot2_id

\* C23: delete(id) is a hard delete with no cascade: a step that removes a
\* snapshot row leaves every evaluation row as it is, those that refer to
\* the removed id included, and each stays retrievable by its own id.
C23_DeleteDoesNotCascade ==
    [][/\ (\E r \in table : r \notin table') => evaluations' = evaluations
       /\ EvaluationRetrievable']_vars

C23_Witness ==
    /\ WasDeleted(1)
    /\ last.op = "get_evaluation"
    /\ last.id = 1
    /\ last.found
    /\ last.value.snapshot1_id = 1
    /\ Len(evaluations) = 1

\* C27: the count in "Successfully deleted N snapshot(s)" equals the number
\* of snapshots the call removed, and the interface's choice between its
\* success message and "No snapshots were deleted" follows whether the call
\* removed any.
C27_ReportedCountIsRemoved ==
    [][(last' # last /\ last'.op = "delete_selected") =>
          LET removed == Cardinality(table \ table')
          IN  /\ last'.status[1] = "Successfully deleted "
                    => last'.value.deleted_count = removed
              /\ last'.status = <<"No snapshots were deleted">> => removed = 0
              /\ last'.status = <<"Selected snapshots deleted successfully">>
                    => removed > 0]_vars

\* C28: when two callers run delete_snapshot on the same existing id, at
\* most one of them reports "deleted successfully": a caller reports
\* success only if the row was still stored when its delete committed.
C28_OneDeleteSucceeds ==
    [][(last' # last /\ last'.op = "delete" /\ Len(last'.status) = 3
            /\ last'.status[3] = " deleted successfully")
          => RowsWithId(last'.id) # {}]_vars

\* C29: delete_snapshot changes nothing but the snapshot it names: when a
\* delete reports success the table is what it was without the rows of
\* that id, every other row as it was; a delete with an id that is not a
\* number, is zero or negative, or is not stored returns a status message
\* and leaves the table as it was; and no step of a delete before its
\* commit changes the table.
C29_DeleteFrame ==
    [][/\ (last' # last /\ last'.op \in {"delete", "delete_btn"}) =>
             IF Len(last'.status) = 3
                    /\ last'.status[3] = " deleted successfully"
             THEN table' = {r \in table : r[1] # last'.id}
             ELSE /\ table' = table
                  /\ last'.status \in
                        {<<"Invalid snapshot ID">>,
                         <<"Please enter a snapshot ID">>,
                         <<"Snapshot with ID ", ToString(last'.id), " not found">>}
                  /\ (last'.status = <<"Invalid snapshot ID">>)
                        <=> (last'.id <= 0 /\ last'.op = "delete")
       /\ (\E c \in Clients : /\ cl'[c] # cl[c]
                               /\ cl'[c].pc \in {"del_exec", "del_commit"})
             => table' = table]_vars

C29_Witness ==
    /\ last.op = "delete"
    /\ last.id = 1
    /\ last.status = <<"Snapshot ", "1", " deleted successfully">>
    /\ Cardinality(table) = 1
    /\ \E r \in table : r[1] = 2

---------------------------------------------------------------------------
(* Properties of reflection_gemini.main *)

\* the queries that returned None
FailedQueries ==
    {k \in 1..Len(gem.queries) :
        /\ ~gem.queries[k].pending
        /\ ~gem.queries[k].raised
        /\ gem.queries[k].ret = None}

FailureMessage(k) ==
    CASE k = 1 -> <<"Failed to generate initial answer.">>
      [] k = 2 -> <<"Failed to generate feedback.">>
      [] k = 3 -> <<"Failed to generate revised answer.">>

\* C30: in reflection_gemini.main a stage whose query returns None stops
\* the pipeline: the failed query is the last one issued, main has returned
\* a 3-tuple whose slot of the failed stage holds that stage's "Failed to
\* generate ..." message, whose earlier slots hold the earlier answers and
\* whose later slots are empty strings.
C30_FailedStageStopsPipeline ==
    \A k \in FailedQueries :
        /\ Len(gem.queries) = k
        /\ gem.queries[k].stage = GemStages[k]
        /\ gem.pc = "done"
        /\ Len(gem.ret) = 3
        /\ gem.ret[k] = FailureMessage(k)
        /\ \A i \in 1..(k - 1) : gem.ret[i] = gem.queries[i].ret
        /\ \A i \in (k + 1)..3 : gem.ret[i] = <<>>

C30_Witness ==
    /\ gem.pc = "done"
    /\ Len(gem.queries) = 2
    /\ gem.queries[1].ret = <<"a">>
    /\ gem.queries[2].ret = None
    /\ gem.ret = <<<<"a">>, <<"Failed to generate feedback.">>, <<>>>>

---------------------------------------------------------------------------
(* Specifications *)

Init == EngineInit /\ StoreInit /\ ev = NoEval /\ gem = NoGem /\ ext = NoExt

Next == EngineNext

\* the reflection pipeline
Spec == Init /\ [][Next]_vars

\* the snapshot store under one caller
SpecStore == Init /\ [][StoreNext]_vars

\* the snapshot store with all of its operations, under one caller
SpecStoreOps == Init /\ [][StoreOpsNext]_vars

\* the comparative evaluator over the snapshot store
SpecEval == Init /\ [][EvalNext]_vars

\* the snapshot store under concurrent callers
SpecStoreConc == Init /\ [][StoreConcNext]_vars

\* the snapshot store with rows deleted by selection
SpecStoreSelect == Init /\ [][StoreSelectNext]_vars

\* tag extraction over every text of up to MaxTextLen tokens
InitExtract ==
    EngineInit /\ StoreInit /\ ev = NoEval /\ gem = NoGem /\ ExtractInit

SpecExtract == InitExtract /\ [][ExtractNext]_vars

\* reflection_gemini.main
SpecGemini == Init /\ [][GemNext]_vars

====
